---- MODULE Spec2Model ----
(***************************************************************************)
(* SimDock 3.1: a model of the Main Window's docking workflow              *)
(* (gui/main_window.py with core/docking_engine.py and utils/helpers.py),  *)
(* of FileManager's temporary-directory registry (core/file_manager.py)    *)
(* and of ConfigManager.save_config (core/config_manager.py).              *)
(*                                                                         *)
(* Later sections model ProjectManager (core/project_manager.py) and the   *)
(* pure functions of ConfigManager, the docking engine and FileManager.    *)
(*                                                                         *)
(* The specifications of the module:                                       *)
(*   Spec        the UI thread, the Tk "after" queue, the docking workers  *)
(*   SpecTemp    sequential create_temp_directory calls on one FileManager *)
(*   SpecSave    load_config / set_setting / save_config over a file       *)
(*               system whose every step may fail                          *)
(*   SpecProject the ProjectManager calls over one project folder          *)
(*   SpecConfig  _deep_merge, load_config and get_executable_path applied  *)
(*               to drawn dictionaries and configuration files             *)
(*   SpecValidate  _validate_file applied to drawn files                   *)
(*   SpecDocking the box handed to engine.run_docking by the Main Window   *)
(*               and by DockingManager.run_docking                         *)
(*   SpecLock    the UI thread and the docking threads entering and        *)
(*               leaving the statements guarded by thread_lock             *)
(*   SpecEngine  get_adaptive_exhaustiveness, validate_parameters and      *)
(*               parse_output applied to drawn arguments                   *)
(*   SpecCalc    file selections, structure fetches and the coordinate     *)
(*               calculation thread                                        *)
(*   SpecTermination  one docking run and one coordinate calculation under *)
(*               fair scheduling of the started threads                    *)
(*   SpecBatchTemp  a batch run taking its directories from FileManager    *)
(*   SpecTempThreads  create_temp_directory called by several threads      *)
(*   SpecWizard  create_config_wizard applied to drawn answers             *)
(***************************************************************************)
EXTENDS Integers, Sequences, FiniteSets, TLC

\* ------------------------------------------------------------- bounds
\* Largest ligand library, number of Start Docking launches, number of
\* create_temp_directory calls, number of distinct configuration contents.
MaxLigands == 2
MaxRuns == 2
MaxCalls == 120
MaxVersion == 3

VARIABLES
    \* ---- MainWindow (gui/main_window.py)
    ligand_library,             \* ordered list of ligand files
    is_docking,
    cancel_docking,
    cancel_button,              \* TRUE while the cancel button is packed
    status,                     \* text of the status label
    dialog,                     \* text of the last error dialog shown
    last_results,
    batch_results_summary,
    full_batch_results,
    last_run_type,
    single_docking_output_path,
    receptor_pdbqt_path,
    after_queue,                \* callbacks scheduled with root.after(0, ...)
    worker,                     \* the docking threads, by launch number
    nruns,                      \* docking threads launched so far
    \* ---- MainWindow: fetches and the coordinate calculation
    mw_receptor_path,           \* receptor_path; 0 is the empty path
    mw_first_ligand,            \* ligand_library[0]; 0 with no ligand
    docking_mode,
    is_calculating,
    calculate_thread,           \* the coordinate calculation thread
    fetch_threads,              \* the fetch threads, by launch number
    tk_after,                   \* callbacks these threads handed to root.after
    box_source,                 \* the file the box fields were computed from
    widget_update,              \* the latest widget update and the thread that made it
    calc_ok,                    \* the latest calculation found coordinates so far
    selections,                 \* files picked in a file dialog so far
    \* ---- FileManager (core/file_manager.py)
    temp_dirs,                  \* the registry, in creation order
    disk_dirs,                  \* temporary directories that exist on disk
    calls,                      \* create_temp_directory calls made
    cleanup_passes,             \* cleanup_temp_directories passes run
    last_call_cleaned,          \* the latest call ran a cleanup pass
    tracked_before,             \* len(temp_dirs) when the latest call began
    batch_run,                  \* a batch docking run taking its directories here
    ct_threads,                 \* threads inside create_temp_directory
    \* ---- ConfigManager (core/config_manager.py)
    config,                     \* self.config, as a content version
    fs_config,                  \* config.json on disk
    fs_backup,                  \* config.json.backup
    fs_tmp,                     \* config.json.tmp
    save_pc,                    \* position inside load_config / save_config
    save_pre,                   \* content of config.json when save_config began
    save_ret,                   \* what save_config returned
    save_caller,                \* who called save_config
    \* ---- ProjectManager (core/project_manager.py)
    current_project_path,       \* self.current_project_path, <<>> for None
    project_data,               \* self.project_data (the manifest in memory)
    project_json,               \* <project-folder>/project.json on disk
    project_files,              \* files that exist on disk, as absolute paths
    pm_phase,                   \* where the manager is in create / add / save / load
    pm_saved,                   \* the manifest in memory when save_project returned
    pm_ops,                     \* ProjectManager calls made
    \* ---- functions applied to drawn arguments
    fn_op,                      \* the function applied last
    fn_in,                      \* its arguments
    fn_out,                     \* what it returned
    \* ---- MainWindow.thread_lock (gui/main_window.py)
    thread_lock,                \* the threads that hold the lock
    lk_thread,                  \* each thread's position, ligand index and library length
    lk_last_write,              \* the latest write to a guarded field
    lk_is_docking,              \* self.is_docking
    lk_pending,                 \* terminal callbacks scheduled and not yet run
    lk_runs                     \* docking threads started

vars_mw == <<ligand_library, is_docking, cancel_docking, cancel_button, status,
             dialog, last_results, batch_results_summary, full_batch_results,
             last_run_type, single_docking_output_path, receptor_pdbqt_path,
             after_queue, worker, nruns>>
vars_fm == <<temp_dirs, disk_dirs, calls, cleanup_passes, last_call_cleaned,
             tracked_before,
            batch_run, ct_threads>>
vars_cfg == <<config, fs_config, fs_backup, fs_tmp, save_pc, save_pre, save_ret,
              save_caller>>
vars_pm == <<current_project_path, project_data, project_json, project_files,
             pm_phase, pm_saved, pm_ops>>
vars_fn == <<fn_op, fn_in, fn_out>>
vars_lk == <<thread_lock, lk_thread, lk_last_write, lk_is_docking, lk_pending, lk_runs>>
vars_cc == <<mw_receptor_path, mw_first_ligand, docking_mode, is_calculating,
            calculate_thread, fetch_threads, tk_after, box_source, widget_update,
            calc_ok, selections>>
vars == <<vars_mw, vars_fm, vars_cfg, vars_pm, vars_fn, vars_lk, vars_cc>>

\* =====================================================================
\*  MainWindow: the docking workflow
\* =====================================================================

Runs == 1..MaxRuns

\* The score lists parse_output can hand back: none, or one binding mode
\* (its affinity, as a magnitude).
ScoreLists == {<<>>, <<7>>}

EngineName == "AutoDock Vina"

NoResult == [success |-> FALSE, scores |-> <<>>]

\* A docking thread that has not been launched.  i, processed, receptor_pdbqt,
\* ligand_pdbqt and result are the locals of _run_single_docking and
\* _run_batch_docking; the remaining fields record the run's history:
\*   term         the terminal callback the thread scheduled
\*   cancel_at    where the thread was when cancel_docking_process set the flag
\*   prep_failed  ligands whose prepare_ligand returned no path
\*   dock_failed  ligands whose docking raised, left no output or gave no scores
\*   dock_raised  ligands whose docking call raised
\*   produced     ligands whose docking gave scores
IdleWorker ==
    [pc |-> "idle", i |-> 0, processed |-> 0, receptor_pdbqt |-> 0,
     ligand_pdbqt |-> 0, result |-> NoResult, term |-> "none",
     cancel_at |-> "none", prep_failed |-> {}, dock_failed |-> {},
     dock_raised |-> {}, produced |-> {}]

\* A docking thread that has ended; its locals and history are gone once the
\* next run starts.
DoneWorker == [IdleWorker EXCEPT !.pc = "done"]

Running(w) == worker[w].pc \notin {"idle", "done"}

Callback(kind, msg) == [kind |-> kind, msg |-> msg]

\* root.after(0, cb): the callback joins the UI thread's queue.
Schedule(q, kind, msg) == Append(q, Callback(kind, msg))

\* utils/helpers.py run_command: check=True turns a non-zero exit into
\* CalledProcessError, re-raised as Exception; a missing program raises too.
RunCommandRaises(exit_ok) == ~exit_ok

\* VinaEngine.run_docking once run_command has returned: success exactly when
\* the output file exists, whatever parse_output found.
RunDockingResult(output_exists, scores) ==
    IF output_exists
    THEN [success |-> TRUE, scores |-> scores]
    ELSE NoResult

\* MainWindow._initialize_state, after a receptor and a ligand library have
\* been selected.
InitMW ==
    /\ ligand_library \in {[k \in 1..n |-> k] : n \in 0..MaxLigands}
    /\ is_docking = FALSE
    /\ cancel_docking = FALSE
    /\ cancel_button = FALSE
    /\ status = "Ready"
    /\ dialog = "none"
    /\ last_results = <<>>
    /\ batch_results_summary = <<>>
    /\ full_batch_results = <<>>
    /\ last_run_type = "None"
    /\ single_docking_output_path = 0
    /\ receptor_pdbqt_path = 0
    /\ after_queue = <<>>
    /\ worker = [w \in Runs |-> IdleWorker]
    /\ nruns = 0

\* ---------------------------------------------------------- UI thread

\* start_docking.  With no ligand, or with is_docking set, it only shows a
\* message box.  Otherwise it sets the flags, clears the result buffers and
\* starts docking_thread, which picks batch or single by the library's length.
start_docking ==
    /\ Len(ligand_library) > 0
    /\ ~is_docking
    /\ nruns < MaxRuns
    /\ is_docking' = TRUE
    /\ cancel_docking' = FALSE
    /\ cancel_button' = TRUE
    /\ last_results' = <<>>
    /\ batch_results_summary' = <<>>
    /\ full_batch_results' = <<>>
    /\ nruns' = nruns + 1
    /\ worker' = [w \in Runs |->
                    IF w = nruns + 1
                    THEN [IdleWorker EXCEPT !.pc =
                            IF Len(ligand_library) > 1 THEN "b_check" ELSE "s_check1"]
                    ELSE IF worker[w].pc = "done" THEN DoneWorker ELSE worker[w]]
    /\ UNCHANGED <<ligand_library, status, dialog, last_run_type,
                   single_docking_output_path, receptor_pdbqt_path, after_queue>>
    /\ UNCHANGED <<vars_fm, vars_cfg, vars_pm, vars_fn, vars_lk, vars_cc>>

\* cancel_docking_process.
cancel_docking_process ==
    /\ is_docking
    /\ cancel_docking' = TRUE
    /\ status' = "Cancelling docking..."
    /\ worker' = [w \in Runs |->
                    IF Running(w) /\ worker[w].cancel_at = "none"
                    THEN [worker[w] EXCEPT !.cancel_at = worker[w].pc]
                    ELSE worker[w]]
    /\ UNCHANGED <<ligand_library, is_docking, cancel_button, dialog, last_results,
                   batch_results_summary, full_batch_results, last_run_type,
                   single_docking_output_path, receptor_pdbqt_path, after_queue,
                   nruns>>
    /\ UNCHANGED <<vars_fm, vars_cfg, vars_pm, vars_fn, vars_lk, vars_cc>>

\* _on_docking_error: the message and the status depend on cancel_docking as
\* it is when the callback runs.
ErrorStatus(cancelled) == IF cancelled THEN "Docking cancelled" ELSE "Docking failed"
ErrorDialog(cancelled) ==
    IF cancelled THEN "Docking was cancelled by user" ELSE "Docking failed"

\* The UI thread runs the oldest scheduled callback.
ui_run_callback ==
    /\ after_queue # <<>>
    /\ LET cb == Head(after_queue)
           rest == Tail(after_queue)
       IN  CASE cb.kind = "status" ->
                   /\ status' = cb.msg
                   /\ after_queue' = rest
                   /\ UNCHANGED <<is_docking, cancel_docking, cancel_button, dialog>>
             [] cb.kind \in {"complete", "batch_complete"} ->
                   \* _on_docking_complete / _on_batch_docking_complete
                   /\ status' = cb.msg
                   /\ is_docking' = FALSE
                   /\ cancel_docking' = FALSE
                   /\ after_queue' = rest
                   /\ UNCHANGED <<cancel_button, dialog>>
             [] cb.kind = "error" ->
                   /\ after_queue' = Schedule(rest, "dialog", ErrorDialog(cancel_docking))
                   /\ status' = ErrorStatus(cancel_docking)
                   /\ is_docking' = FALSE
                   /\ cancel_docking' = FALSE
                   /\ UNCHANGED <<cancel_button, dialog>>
             [] cb.kind = "hide_cancel" ->
                   /\ cancel_button' = FALSE
                   /\ after_queue' = rest
                   /\ UNCHANGED <<is_docking, cancel_docking, status, dialog>>
             [] cb.kind = "dialog" ->
                   /\ dialog' = cb.msg
                   /\ after_queue' = rest
                   /\ UNCHANGED <<is_docking, cancel_docking, cancel_button, status>>
    /\ UNCHANGED <<ligand_library, last_results, batch_results_summary,
                   full_batch_results, last_run_type, single_docking_output_path,
                   receptor_pdbqt_path, worker, nruns>>
    /\ UNCHANGED <<vars_fm, vars_cfg, vars_pm, vars_fn, vars_lk, vars_cc>>

\* ------------------------------------------------------ docking thread

frame_results == <<last_results, batch_results_summary, full_batch_results,
                   last_run_type, single_docking_output_path, receptor_pdbqt_path>>
frame_flags == <<ligand_library, is_docking, cancel_docking, cancel_button,
                 status, dialog, nruns>>

\* "if self.cancel_docking: root.after(0, update_status('Docking cancelled')); return"
Cancelled(w) ==
    /\ after_queue' = Schedule(after_queue, "status", "Docking cancelled")
    /\ worker' = [worker EXCEPT ![w].pc = "finally", ![w].term = "cancelled"]

\* "except Exception as e: root.after(0, _on_docking_error(str(e)))"
Raised(w, wrec, msg) ==
    /\ after_queue' = Schedule(after_queue, "error", msg)
    /\ worker' = [worker EXCEPT ![w] = [wrec EXCEPT !.pc = "finally", !.term = "error"]]

\* A cancellation checkpoint followed by a progress message.
Checkpoint(w, msg, next) ==
    IF cancel_docking
    THEN Cancelled(w)
    ELSE /\ after_queue' = Schedule(after_queue, "status", msg)
         /\ worker' = [worker EXCEPT ![w].pc = next]

\* _run_single_docking, lines 516-522.
single_check1(w) ==
    /\ worker[w].pc = "s_check1"
    /\ Checkpoint(w, "Preparing receptor...", "s_receptor")
    /\ UNCHANGED <<frame_results, frame_flags>>
    /\ UNCHANGED <<vars_fm, vars_cfg, vars_pm, vars_fn, vars_lk, vars_cc>>

\* lines 523-526: prepare_receptor returns a path or None.
single_prepare_receptor(w) ==
    /\ worker[w].pc = "s_receptor"
    /\ \E ok \in BOOLEAN :
          IF ok
          THEN /\ worker' = [worker EXCEPT ![w].pc = "s_check2",
                                           ![w].receptor_pdbqt = w]
               /\ UNCHANGED after_queue
          ELSE Raised(w, worker[w], "Failed to prepare receptor")
    /\ UNCHANGED <<frame_results, frame_flags>>
    /\ UNCHANGED <<vars_fm, vars_cfg, vars_pm, vars_fn, vars_lk, vars_cc>>

\* lines 528-533.
single_check2(w) ==
    /\ worker[w].pc = "s_check2"
    /\ Checkpoint(w, "Preparing ligand...", "s_ligand")
    /\ UNCHANGED <<frame_results, frame_flags>>
    /\ UNCHANGED <<vars_fm, vars_cfg, vars_pm, vars_fn, vars_lk, vars_cc>>

\* lines 534-537.
single_prepare_ligand(w) ==
    /\ worker[w].pc = "s_ligand"
    /\ \E ok \in BOOLEAN :
          IF ok
          THEN /\ worker' = [worker EXCEPT ![w].pc = "s_check3",
                                           ![w].ligand_pdbqt = ligand_library[1]]
               /\ UNCHANGED after_queue
          ELSE Raised(w, [worker[w] EXCEPT !.prep_failed = {1}],
                      "Failed to prepare ligand")
    /\ UNCHANGED <<frame_results, frame_flags>>
    /\ UNCHANGED <<vars_fm, vars_cfg, vars_pm, vars_fn, vars_lk, vars_cc>>

\* lines 539-545.
single_check3(w) ==
    /\ worker[w].pc = "s_check3"
    /\ Checkpoint(w, "Running AutoDock Vina...", "s_docking")
    /\ UNCHANGED <<frame_results, frame_flags>>
    /\ UNCHANGED <<vars_fm, vars_cfg, vars_pm, vars_fn, vars_lk, vars_cc>>

\* The history fields after a docking call of ligand k.
NoteDocking(wrec, k, raised, res) ==
    [wrec EXCEPT
        !.dock_raised = IF raised THEN @ \cup {k} ELSE @,
        !.dock_failed = IF raised \/ ~res.success \/ res.scores = <<>>
                        THEN @ \cup {k} ELSE @,
        !.produced = IF ~raised /\ res.success /\ res.scores # <<>>
                     THEN @ \cup {k} ELSE @]

\* lines 546-560: engine.run_docking; an exception of run_command passes
\* through run_docking to the handler of _run_single_docking.
single_run_docking(w) ==
    /\ worker[w].pc = "s_docking"
    /\ \E exit_ok \in BOOLEAN, output_exists \in BOOLEAN, scores \in ScoreLists :
          LET res == RunDockingResult(output_exists, scores) IN
          IF RunCommandRaises(exit_ok)
          THEN Raised(w, NoteDocking(worker[w], 1, TRUE, NoResult),
                      "Error with vina")
          ELSE /\ worker' = [worker EXCEPT ![w] =
                               [NoteDocking(worker[w], 1, FALSE, res)
                                   EXCEPT !.pc = "s_check4", !.result = res]]
               /\ UNCHANGED after_queue
    /\ UNCHANGED <<frame_results, frame_flags>>
    /\ UNCHANGED <<vars_fm, vars_cfg, vars_pm, vars_fn, vars_lk, vars_cc>>

\* lines 562-565.
single_check4(w) ==
    /\ worker[w].pc = "s_check4"
    /\ IF cancel_docking
       THEN Cancelled(w)
       ELSE /\ worker' = [worker EXCEPT ![w].pc = "s_record"]
            /\ UNCHANGED after_queue
    /\ UNCHANGED <<frame_results, frame_flags>>
    /\ UNCHANGED <<vars_fm, vars_cfg, vars_pm, vars_fn, vars_lk, vars_cc>>

\* lines 567-577: record the result under thread_lock and schedule
\* _on_docking_complete, or raise the engine's error.
single_record(w) ==
    /\ worker[w].pc = "s_record"
    /\ IF worker[w].result.success
       THEN /\ last_results' = worker[w].result.scores
            /\ single_docking_output_path' = w
            /\ receptor_pdbqt_path' = worker[w].receptor_pdbqt
            /\ last_run_type' = "single"
            /\ after_queue' = Schedule(after_queue, "complete",
                                       "Docking completed successfully!")
            /\ worker' = [worker EXCEPT ![w].pc = "finally", ![w].term = "complete"]
            /\ UNCHANGED <<batch_results_summary, full_batch_results>>
       ELSE /\ Raised(w, worker[w], "Docking failed - no output file generated")
            /\ UNCHANGED frame_results
    /\ UNCHANGED frame_flags
    /\ UNCHANGED <<vars_fm, vars_cfg, vars_pm, vars_fn, vars_lk, vars_cc>>

\* docking_thread's finally block, lines 496-500.
docking_thread_finally(w) ==
    /\ worker[w].pc = "finally"
    /\ is_docking' = FALSE
    /\ cancel_docking' = FALSE
    /\ after_queue' = Schedule(after_queue, "hide_cancel", "")
    /\ worker' = [worker EXCEPT ![w].pc = "done"]
    /\ UNCHANGED <<frame_results, ligand_library, cancel_button, status, dialog,
                   nruns>>
    /\ UNCHANGED <<vars_fm, vars_cfg, vars_pm, vars_fn, vars_lk, vars_cc>>

\* _run_batch_docking, lines 587-592.
batch_check(w) ==
    /\ worker[w].pc = "b_check"
    /\ Checkpoint(w, "Preparing receptor...", "b_receptor")
    /\ UNCHANGED <<frame_results, frame_flags>>
    /\ UNCHANGED <<vars_fm, vars_cfg, vars_pm, vars_fn, vars_lk, vars_cc>>

\* lines 593-604: prepare the receptor, then clear the batch buffers.
batch_prepare_receptor(w) ==
    /\ worker[w].pc = "b_receptor"
    /\ \E ok \in BOOLEAN :
          IF ok
          THEN /\ worker' = [worker EXCEPT ![w].pc = "b_top",
                                           ![w].receptor_pdbqt = w,
                                           ![w].i = 1,
                                           ![w].processed = 0]
               /\ batch_results_summary' = <<>>
               /\ full_batch_results' = <<>>
               /\ UNCHANGED after_queue
          ELSE /\ Raised(w, worker[w], "Failed to prepare receptor")
               /\ UNCHANGED <<batch_results_summary, full_batch_results>>
    /\ UNCHANGED <<last_results, last_run_type, single_docking_output_path,
                   receptor_pdbqt_path, frame_flags>>
    /\ UNCHANGED <<vars_fm, vars_cfg, vars_pm, vars_fn, vars_lk, vars_cc>>

\* The summary row of one ligand.
SummaryRow(ligand, best, output) ==
    [Ligand |-> ligand, Best |-> best, OutputFile |-> output, Engine |-> EngineName]

\* lines 606-615: the top of the loop; after the last ligand, lines 663-671.
batch_top(w) ==
    /\ worker[w].pc = "b_top"
    /\ IF worker[w].i <= Len(ligand_library)
       THEN /\ Checkpoint(w, "Docking ligand...", "b_ligand")
            /\ UNCHANGED frame_results
       ELSE IF worker[w].processed = 0
            THEN /\ Raised(w, worker[w], "No ligands were successfully processed")
                 /\ UNCHANGED frame_results
            ELSE /\ receptor_pdbqt_path' = worker[w].receptor_pdbqt
                 /\ last_run_type' = "batch"
                 /\ after_queue' = Schedule(after_queue, "batch_complete",
                                            "Batch docking completed!")
                 /\ worker' = [worker EXCEPT ![w].pc = "finally",
                                             ![w].term = "batch_complete"]
                 /\ UNCHANGED <<last_results, batch_results_summary,
                                full_batch_results, single_docking_output_path>>
    /\ UNCHANGED frame_flags
    /\ UNCHANGED <<vars_fm, vars_cfg, vars_pm, vars_fn, vars_lk, vars_cc>>

\* lines 617-628: prepare_ligand; a failure is recorded and the loop goes on.
batch_prepare_ligand(w) ==
    /\ worker[w].pc = "b_ligand"
    /\ LET k == worker[w].i
           ligand_name == ligand_library[k]
       IN  \E ok \in BOOLEAN :
              IF ok
              THEN /\ worker' = [worker EXCEPT ![w].pc = "b_docking",
                                               ![w].ligand_pdbqt = ligand_name]
                   /\ UNCHANGED batch_results_summary
              ELSE /\ batch_results_summary' =
                         Append(batch_results_summary,
                                SummaryRow(ligand_name, "PREPARATION_ERROR", <<>>))
                   /\ worker' = [worker EXCEPT ![w].pc = "b_top",
                                               ![w].processed = @ + 1,
                                               ![w].i = @ + 1,
                                               ![w].prep_failed = @ \cup {k}]
    /\ UNCHANGED <<last_results, full_batch_results, last_run_type,
                   single_docking_output_path, receptor_pdbqt_path, after_queue,
                   frame_flags>>
    /\ UNCHANGED <<vars_fm, vars_cfg, vars_pm, vars_fn, vars_lk, vars_cc>>

\* lines 630-643: engine.run_docking; an exception of run_command leaves the
\* loop for the handler at line 673.
batch_run_docking(w) ==
    /\ worker[w].pc = "b_docking"
    /\ LET k == worker[w].i IN
       \E exit_ok \in BOOLEAN, output_exists \in BOOLEAN, scores \in ScoreLists :
          LET res == RunDockingResult(output_exists, scores) IN
          IF RunCommandRaises(exit_ok)
          THEN Raised(w, NoteDocking(worker[w], k, TRUE, NoResult),
                      "Error with vina")
          ELSE /\ worker' = [worker EXCEPT ![w] =
                               [NoteDocking(worker[w], k, FALSE, res)
                                   EXCEPT !.pc = "b_record", !.result = res]]
               /\ UNCHANGED after_queue
    /\ UNCHANGED <<frame_results, frame_flags>>
    /\ UNCHANGED <<vars_fm, vars_cfg, vars_pm, vars_fn, vars_lk, vars_cc>>

\* line 647: a ligand counts as docked when the run succeeded with scores.
HasScores(res) == res.success /\ res.scores # <<>>

\* lines 648 and 652: the best score, or the placeholder.
BestOf(res) == IF HasScores(res) THEN res.scores[1] ELSE "DOCKING_ERROR"

\* lines 645-661: record the ligand's result under thread_lock.
batch_record(w) ==
    /\ worker[w].pc = "b_record"
    /\ LET k == worker[w].i
           ligand_name == ligand_library[k]
           res == worker[w].result
       IN  /\ full_batch_results' =
                 IF HasScores(res)
                 THEN full_batch_results \o
                      [j \in 1..Len(res.scores) |->
                          [Ligand |-> ligand_name, Affinity |-> res.scores[j]]]
                 ELSE full_batch_results
           /\ batch_results_summary' =
                 Append(batch_results_summary,
                        SummaryRow(ligand_name, BestOf(res), <<w, k>>))
           /\ worker' = [worker EXCEPT ![w].pc = "b_top",
                                       ![w].processed = @ + 1,
                                       ![w].i = @ + 1]
    /\ UNCHANGED <<last_results, last_run_type, single_docking_output_path,
                   receptor_pdbqt_path, after_queue, frame_flags>>
    /\ UNCHANGED <<vars_fm, vars_cfg, vars_pm, vars_fn, vars_lk, vars_cc>>

NextMW ==
    \/ start_docking
    \/ cancel_docking_process
    \/ ui_run_callback
    \/ \E w \in Runs : single_check1(w)
    \/ \E w \in Runs : single_prepare_receptor(w)
    \/ \E w \in Runs : single_check2(w)
    \/ \E w \in Runs : single_prepare_ligand(w)
    \/ \E w \in Runs : single_check3(w)
    \/ \E w \in Runs : single_run_docking(w)
    \/ \E w \in Runs : single_check4(w)
    \/ \E w \in Runs : single_record(w)
    \/ \E w \in Runs : batch_check(w)
    \/ \E w \in Runs : batch_prepare_receptor(w)
    \/ \E w \in Runs : batch_top(w)
    \/ \E w \in Runs : batch_prepare_ligand(w)
    \/ \E w \in Runs : batch_run_docking(w)
    \/ \E w \in Runs : batch_record(w)
    \/ \E w \in Runs : docking_thread_finally(w)

\* =====================================================================
\*  FileManager: the temporary-directory registry
\* =====================================================================

\* FileManager.__init__: self.max_temp_dirs.
max_temp_dirs == 50

Range(f) == {f[k] : k \in DOMAIN f}

\* The longest ligand library of a batch run, the threads that may be inside
\* create_temp_directory together and the calls each of them makes.
MaxLibrary == 25
MaxTempThreads == 2
MaxThreadCalls == 1

LibrarySizes == {2, MaxLibrary}

TempThreads == 1..MaxTempThreads

\* first_output is the directory of the first row's OutputFile: a cleanup pass
\* removes every listed directory, so no later one is removed before it.
IdleBatch == [pc |-> "idle", i |-> 0, n |-> 0, receptor_dir |-> 0, ligand_dir |-> 0,
              first_output |-> 0, inputs_exist |-> TRUE]

IdleCreate == [pc |-> "idle", j |-> 0, temp_dir |-> 0, n |-> 0]

InitFM ==
    /\ temp_dirs = <<>>
    /\ disk_dirs = {}
    /\ calls = 0
    /\ cleanup_passes = 0
    /\ last_call_cleaned = FALSE
    /\ tracked_before = 0
    /\ batch_run = IdleBatch
    /\ ct_threads = [t \in TempThreads |-> IdleCreate]

\* The test of line 125, with an off-by-one variant.
CleanupNeededLate(tracked) == tracked > max_temp_dirs

CleanupNeeded(tracked) == tracked >= max_temp_dirs

\* cleanup_temp_directories: rmtree every tracked directory, clear the list.
DiskAfterCleanup == disk_dirs \ Range(temp_dirs)

\* create_temp_directory: the cleanup pass when the cap is reached, then
\* mkdtemp (a fresh name: the call's number) and the append.
CreateTempDirectory ==
    /\ calls < MaxCalls
    /\ LET clean == CleanupNeeded(Len(temp_dirs))
           temp_dir == calls + 1
       IN  /\ temp_dirs' = Append(IF clean THEN <<>> ELSE temp_dirs, temp_dir)
           /\ disk_dirs' = (IF clean THEN DiskAfterCleanup ELSE disk_dirs)
                              \cup {temp_dir}
           /\ cleanup_passes' = cleanup_passes + (IF clean THEN 1 ELSE 0)
           /\ last_call_cleaned' = clean
    /\ tracked_before' = Len(temp_dirs)
    /\ calls' = calls + 1

\* A call made while no other thread is inside create_temp_directory and
\* before the batch run.
create_temp_directory ==
    /\ batch_run.pc = "idle"
    /\ \A t \in TempThreads : ct_threads[t].pc = "idle"
    /\ CreateTempDirectory
    /\ UNCHANGED <<batch_run, ct_threads>>
    /\ UNCHANGED <<vars_mw, vars_cfg, vars_pm, vars_fn, vars_lk, vars_cc>>

\* ---- a batch docking run and its directories

\* _run_batch_docking is entered with a library of n ligands.
batch_temp_start ==
    /\ batch_run.pc = "idle"
    /\ \E n \in LibrarySizes :
          batch_run' = [IdleBatch EXCEPT !.pc = "receptor", !.n = n, !.i = 1]
    /\ UNCHANGED <<temp_dirs, disk_dirs, calls, cleanup_passes, last_call_cleaned,
                   tracked_before, ct_threads>>
    /\ UNCHANGED <<vars_mw, vars_cfg, vars_pm, vars_fn, vars_lk, vars_cc>>

\* line 593-596: the receptor is prepared in a new directory, or the
\* preparation fails.
batch_temp_receptor ==
    /\ batch_run.pc = "receptor"
    /\ CreateTempDirectory
    /\ \E ok \in BOOLEAN :
          batch_run' = [batch_run EXCEPT !.pc = IF ok THEN "ligand" ELSE "error",
                                         !.receptor_dir = calls + 1]
    /\ UNCHANGED ct_threads
    /\ UNCHANGED <<vars_mw, vars_cfg, vars_pm, vars_fn, vars_lk, vars_cc>>

\* lines 606-628: the next ligand is prepared in a new directory, or its
\* preparation fails and the loop goes on.
batch_temp_ligand ==
    /\ batch_run.pc = "ligand"
    /\ batch_run.i <= batch_run.n
    /\ CreateTempDirectory
    /\ \E ok \in BOOLEAN :
          batch_run' = IF ok THEN [batch_run EXCEPT !.pc = "docking",
                                                    !.ligand_dir = calls + 1]
                       ELSE [batch_run EXCEPT !.i = @ + 1, !.ligand_dir = 0]
    /\ UNCHANGED ct_threads
    /\ UNCHANGED <<vars_mw, vars_cfg, vars_pm, vars_fn, vars_lk, vars_cc>>

\* lines 636-661: the output directory is created, engine.run_docking is
\* invoked with the prepared receptor and ligand, and the row of the ligand
\* names the output path in that directory.
batch_temp_docking ==
    /\ batch_run.pc = "docking"
    /\ CreateTempDirectory
    /\ batch_run' = [batch_run EXCEPT
          !.pc = "ligand",
          !.i = @ + 1,
          !.ligand_dir = 0,
          !.inputs_exist = /\ @
                           /\ batch_run.receptor_dir \in disk_dirs'
                           /\ batch_run.ligand_dir \in disk_dirs',
          !.first_output = IF @ = 0 THEN calls + 1 ELSE @]
    /\ UNCHANGED ct_threads
    /\ UNCHANGED <<vars_mw, vars_cfg, vars_pm, vars_fn, vars_lk, vars_cc>>

\* lines 663-671: the loop is over and the completion callback scheduled.
batch_temp_complete ==
    /\ batch_run.pc = "ligand"
    /\ batch_run.i > batch_run.n
    /\ batch_run' = [batch_run EXCEPT !.pc = "complete"]
    /\ UNCHANGED <<temp_dirs, disk_dirs, calls, cleanup_passes, last_call_cleaned,
                   tracked_before, ct_threads>>
    /\ UNCHANGED <<vars_mw, vars_cfg, vars_pm, vars_fn, vars_lk, vars_cc>>

NextBatchTemp ==
    \/ create_temp_directory
    \/ batch_temp_start
    \/ batch_temp_receptor
    \/ batch_temp_ligand
    \/ batch_temp_docking
    \/ batch_temp_complete

\* ---- create_temp_directory, statement by statement, in several threads

StepCreate(t, pc) == ct_threads' = [ct_threads EXCEPT ![t].pc = pc]

\* A thread calls create_temp_directory.
ct_call(t) ==
    /\ ct_threads[t].pc = "idle"
    /\ ct_threads[t].n < MaxThreadCalls
    /\ batch_run.pc = "idle"
    /\ ct_threads' = [ct_threads EXCEPT ![t].pc = "check", ![t].n = @ + 1]
    /\ UNCHANGED <<temp_dirs, disk_dirs, calls, cleanup_passes, last_call_cleaned,
                   tracked_before, batch_run>>
    /\ UNCHANGED <<vars_mw, vars_cfg, vars_pm, vars_fn, vars_lk, vars_cc>>

\* line 125.
ct_check(t) ==
    /\ ct_threads[t].pc = "check"
    /\ ct_threads' = [ct_threads EXCEPT
          ![t].pc = IF CleanupNeeded(Len(temp_dirs)) THEN "rmtree" ELSE "mkdtemp",
          ![t].j = 1]
    /\ UNCHANGED <<temp_dirs, disk_dirs, calls, cleanup_passes, last_call_cleaned,
                   tracked_before, batch_run>>
    /\ UNCHANGED <<vars_mw, vars_cfg, vars_pm, vars_fn, vars_lk, vars_cc>>

\* lines 134-138: the loop removes the next listed directory, or has gone
\* through the list as it is now.
ct_rmtree(t) ==
    /\ ct_threads[t].pc = "rmtree"
    /\ LET j == ct_threads[t].j
       IN  IF j <= Len(temp_dirs)
           THEN /\ disk_dirs' = disk_dirs \ {temp_dirs[j]}
                /\ ct_threads' = [ct_threads EXCEPT ![t].j = j + 1]
           ELSE /\ StepCreate(t, "clear")
                /\ UNCHANGED disk_dirs
    /\ UNCHANGED <<temp_dirs, calls, cleanup_passes, last_call_cleaned,
                   tracked_before, batch_run>>
    /\ UNCHANGED <<vars_mw, vars_cfg, vars_pm, vars_fn, vars_lk, vars_cc>>

\* line 140.
ct_clear(t) ==
    /\ ct_threads[t].pc = "clear"
    /\ temp_dirs' = <<>>
    /\ cleanup_passes' = cleanup_passes + 1
    /\ StepCreate(t, "mkdtemp")
    /\ UNCHANGED <<disk_dirs, calls, last_call_cleaned, tracked_before, batch_run>>
    /\ UNCHANGED <<vars_mw, vars_cfg, vars_pm, vars_fn, vars_lk, vars_cc>>

\* line 128.
ct_mkdtemp(t) ==
    /\ ct_threads[t].pc = "mkdtemp"
    /\ disk_dirs' = disk_dirs \cup {calls + 1}
    /\ calls' = calls + 1
    /\ ct_threads' = [ct_threads EXCEPT ![t].pc = "append", ![t].temp_dir = calls + 1]
    /\ UNCHANGED <<temp_dirs, cleanup_passes, last_call_cleaned, tracked_before,
                   batch_run>>
    /\ UNCHANGED <<vars_mw, vars_cfg, vars_pm, vars_fn, vars_lk, vars_cc>>

\* lines 129-130.
ct_append(t) ==
    /\ ct_threads[t].pc = "append"
    /\ temp_dirs' = Append(temp_dirs, ct_threads[t].temp_dir)
    /\ StepCreate(t, "idle")
    /\ UNCHANGED <<disk_dirs, calls, cleanup_passes, last_call_cleaned,
                   tracked_before, batch_run>>
    /\ UNCHANGED <<vars_mw, vars_cfg, vars_pm, vars_fn, vars_lk, vars_cc>>

NextTempThreads ==
    \/ create_temp_directory
    \/ \E t \in TempThreads : ct_call(t)
    \/ \E t \in TempThreads : ct_check(t)
    \/ \E t \in TempThreads : ct_rmtree(t)
    \/ \E t \in TempThreads : ct_clear(t)
    \/ \E t \in TempThreads : ct_mkdtemp(t)
    \/ \E t \in TempThreads : ct_append(t)

NextFM == create_temp_directory

\* =====================================================================
\*  ConfigManager: load_config / set_setting / save_config
\* =====================================================================
\* A file is 0 when absent, v > 0 when it holds content v completely and
\* -v when it holds a truncated write of content v (not valid JSON).

Versions == 1..MaxVersion

\* _get_default_config, as a content version.
DefaultConfig == 1

Truncated(v) == IF v > 0 THEN -v ELSE v

InSave == {"sv_backup", "sv_write", "sv_remove", "sv_rename", "sv_rm_backup",
           "sv_except", "sv_restore_remove", "sv_restore_rename"}

\* Before ConfigManager.__init__ runs: config.json is absent or holds some
\* complete content.
InitCfg ==
    /\ config = 0
    /\ fs_config \in 0..MaxVersion
    /\ fs_backup = 0
    /\ fs_tmp = 0
    /\ save_pc = "load"
    /\ save_pre = 0
    /\ save_ret = "none"
    /\ save_caller = "none"

\* Entering save_config.
CallSave(caller) ==
    /\ save_pc' = "sv_backup"
    /\ save_pre' = fs_config
    /\ save_ret' = "none"
    /\ save_caller' = caller

\* save_config returns; load_config ignores the value.
ReturnSave(value) ==
    /\ save_pc' = "idle"
    /\ save_ret' = value
    /\ UNCHANGED <<save_pre, save_caller>>

\* load_config: an existing file is read and merged over the defaults (a file
\* that does not parse leaves the defaults); a missing file is created from
\* the defaults by save_config.
load_config ==
    /\ save_pc = "load"
    /\ IF fs_config # 0
       THEN /\ config' = IF fs_config > 0 THEN fs_config ELSE DefaultConfig
            /\ save_pc' = "idle"
            /\ UNCHANGED <<save_pre, save_ret, save_caller>>
       ELSE /\ config' = DefaultConfig
            /\ CallSave("load_config")
    /\ UNCHANGED <<fs_config, fs_backup, fs_tmp>>
    /\ UNCHANGED <<vars_mw, vars_fm, vars_pm, vars_fn, vars_lk, vars_cc>>

\* set_setting: the in-memory configuration changes.
set_setting ==
    /\ save_pc = "idle"
    /\ \E v \in Versions \ {config} : config' = v
    /\ save_ret' = "none"
    /\ UNCHANGED <<fs_config, fs_backup, fs_tmp, save_pc, save_pre, save_caller>>
    /\ UNCHANGED <<vars_mw, vars_fm, vars_pm, vars_fn, vars_lk, vars_cc>>

\* A caller (the wizard, the settings dialog) saves.
save_config ==
    /\ save_pc = "idle"
    /\ CallSave("caller")
    /\ UNCHANGED <<config, fs_config, fs_backup, fs_tmp>>
    /\ UNCHANGED <<vars_mw, vars_fm, vars_pm, vars_fn, vars_lk, vars_cc>>

\* lines 259-261: shutil.copy2 of an existing file to .backup.  A failed copy
\* leaves the backup as it was or partly written.
save_backup ==
    /\ save_pc = "sv_backup"
    /\ IF fs_config # 0
       THEN \E outcome \in {"ok", "failed", "partial"} :
               /\ fs_backup' = CASE outcome = "ok" -> fs_config
                                 [] outcome = "failed" -> fs_backup
                                 [] outcome = "partial" -> Truncated(fs_config)
               /\ save_pc' = IF outcome = "ok" THEN "sv_write" ELSE "sv_except"
       ELSE /\ save_pc' = "sv_write"
            /\ UNCHANGED fs_backup
    /\ UNCHANGED <<config, fs_config, fs_tmp, save_pre, save_ret, save_caller>>
    /\ UNCHANGED <<vars_mw, vars_fm, vars_pm, vars_fn, vars_lk, vars_cc>>

\* lines 264-266: open(.tmp, 'w') and json.dump.
save_write_tmp ==
    /\ save_pc = "sv_write"
    /\ \E outcome \in {"ok", "failed", "partial"} :
          /\ fs_tmp' = CASE outcome = "ok" -> config
                         [] outcome = "failed" -> fs_tmp
                         [] outcome = "partial" -> Truncated(config)
          /\ save_pc' = IF outcome = "ok" THEN "sv_remove" ELSE "sv_except"
    /\ UNCHANGED <<config, fs_config, fs_backup, save_pre, save_ret, save_caller>>
    /\ UNCHANGED <<vars_mw, vars_fm, vars_pm, vars_fn, vars_lk, vars_cc>>

\* lines 269-270: os.remove of the existing target.
save_remove ==
    /\ save_pc = "sv_remove"
    /\ IF fs_config # 0
       THEN \E ok \in BOOLEAN :
               /\ fs_config' = IF ok THEN 0 ELSE fs_config
               /\ save_pc' = IF ok THEN "sv_rename" ELSE "sv_except"
       ELSE /\ save_pc' = "sv_rename"
            /\ UNCHANGED fs_config
    /\ UNCHANGED <<config, fs_backup, fs_tmp, save_pre, save_ret, save_caller>>
    /\ UNCHANGED <<vars_mw, vars_fm, vars_pm, vars_fn, vars_lk, vars_cc>>

\* line 271: os.rename(.tmp, target).
save_rename ==
    /\ save_pc = "sv_rename"
    /\ \E ok \in BOOLEAN :
          /\ fs_config' = IF ok THEN fs_tmp ELSE fs_config
          /\ fs_tmp' = IF ok THEN 0 ELSE fs_tmp
          /\ save_pc' = IF ok THEN "sv_rm_backup" ELSE "sv_except"
    /\ UNCHANGED <<config, fs_backup, save_pre, save_ret, save_caller>>
    /\ UNCHANGED <<vars_mw, vars_fm, vars_pm, vars_fn, vars_lk, vars_cc>>

\* lines 274-277: remove the backup, return True.
save_remove_backup ==
    /\ save_pc = "sv_rm_backup"
    /\ IF fs_backup # 0
       THEN \E ok \in BOOLEAN :
               IF ok
               THEN /\ fs_backup' = 0
                    /\ ReturnSave("True")
               ELSE /\ save_pc' = "sv_except"
                    /\ UNCHANGED <<fs_backup, save_pre, save_ret, save_caller>>
       ELSE /\ ReturnSave("True")
            /\ UNCHANGED fs_backup
    /\ UNCHANGED <<config, fs_config, fs_tmp>>
    /\ UNCHANGED <<vars_mw, vars_fm, vars_pm, vars_fn, vars_lk, vars_cc>>

\* lines 278-280: the handler looks for a backup.
save_except ==
    /\ save_pc = "sv_except"
    /\ IF fs_backup # 0
       THEN /\ save_pc' = "sv_restore_remove"
            /\ UNCHANGED <<save_pre, save_ret, save_caller>>
       ELSE ReturnSave("False")
    /\ UNCHANGED <<config, fs_config, fs_backup, fs_tmp>>
    /\ UNCHANGED <<vars_mw, vars_fm, vars_pm, vars_fn, vars_lk, vars_cc>>

\* lines 282-283: remove the target before the restore; a failure is passed
\* over (lines 285-286) and save_config returns False.
save_restore_remove ==
    /\ save_pc = "sv_restore_remove"
    /\ IF fs_config # 0
       THEN \E ok \in BOOLEAN :
               IF ok
               THEN /\ fs_config' = 0
                    /\ save_pc' = "sv_restore_rename"
                    /\ UNCHANGED <<save_pre, save_ret, save_caller>>
               ELSE /\ ReturnSave("False")
                    /\ UNCHANGED fs_config
       ELSE /\ save_pc' = "sv_restore_rename"
            /\ UNCHANGED <<fs_config, save_pre, save_ret, save_caller>>
    /\ UNCHANGED <<config, fs_backup, fs_tmp>>
    /\ UNCHANGED <<vars_mw, vars_fm, vars_pm, vars_fn, vars_lk, vars_cc>>

\* lines 284-288: os.rename(.backup, target), then return False.
save_restore_rename ==
    /\ save_pc = "sv_restore_rename"
    /\ \E ok \in BOOLEAN :
          /\ fs_config' = IF ok THEN fs_backup ELSE fs_config
          /\ fs_backup' = IF ok THEN 0 ELSE fs_backup
    /\ ReturnSave("False")
    /\ UNCHANGED <<config, fs_tmp>>
    /\ UNCHANGED <<vars_mw, vars_fm, vars_pm, vars_fn, vars_lk, vars_cc>>

\* The process dies inside save_config and the application is started again:
\* a new ConfigManager is constructed over the files as they are.
crash_restart ==
    /\ save_pc \in InSave
    /\ save_pc' = "load"
    /\ config' = 0
    /\ save_pre' = 0
    /\ save_ret' = "none"
    /\ save_caller' = "none"
    /\ UNCHANGED <<fs_config, fs_backup, fs_tmp>>
    /\ UNCHANGED <<vars_mw, vars_fm, vars_pm, vars_fn, vars_lk, vars_cc>>

NextCfg ==
    \/ load_config
    \/ set_setting
    \/ save_config
    \/ save_backup
    \/ save_write_tmp
    \/ save_remove
    \/ save_rename
    \/ save_remove_backup
    \/ save_except
    \/ save_restore_remove
    \/ save_restore_rename
    \/ crash_restart

\* =====================================================================
\*  ProjectManager: one project folder and its manifest
\* =====================================================================
\* A path is the sequence of its components; an absolute path starts with
\* the component "/".  The process runs in the directory Cwd.  The model
\* follows one project folder, ProjectFolder, which a caller may name by its
\* absolute path or relative to Cwd.

\* Largest number of ProjectManager calls in a behaviour and of entries in
\* one registry of the manifest.
MaxOps == 5
MaxEntries == 2

Cwd == <<"/">>

ProjectFolder == <<"/", "home", "P">>

\* base_directory of create_new_project: absolute, or relative to Cwd.
BaseDirectories == {<<"/", "home">>, <<"home">>}

\* project_path of load_project: the folder (or its project.json, which
\* lines 92-93 reduce to the folder), absolute or relative to Cwd.
ProjectPaths == {<<"/", "home", "P">>, <<"home", "P">>}

\* Files a caller may hand to add_receptor / add_ligands: absolute, relative
\* to Cwd, or a path that names no file.
SourceFiles == {<<"/", "src", "a">>, <<"src", "b">>, <<"/", "src", "missing">>}

\* What the file system holds before the first call.
InitialFiles == {<<"/", "src", "a">>, <<"/", "src", "b">>}

\* open(project_file, 'w') followed by json.dump: done, refused by open, or
\* failed after open truncated the file.
WriteOutcomes == {"ok", "fail_open", "fail_trunc"}

\* os.path.isabs
IsAbs(p) == Len(p) > 0 /\ p[1] = "/"

\* os.path.join(a, b)
Join(a, b) == IF IsAbs(b) THEN b ELSE a \o b

\* os.path.basename
Basename(p) == p[Len(p)]

RECURSIVE NormFrom(_, _)
NormFrom(done, rest) ==
    IF rest = <<>> THEN done
    ELSE IF Head(rest) = ".."
         THEN NormFrom(IF Len(done) > 1 THEN SubSeq(done, 1, Len(done) - 1)
                       ELSE done, Tail(rest))
         ELSE NormFrom(Append(done, Head(rest)), Tail(rest))

\* os.path.normpath of an absolute path
Normalize(p) == NormFrom(<<>>, p)

\* os.path.abspath
Abspath(p) == Normalize(IF IsAbs(p) THEN p ELSE Cwd \o p)

\* os.path.exists
Exists(files, p) == Abspath(p) \in files

RECURSIVE CommonPrefix(_, _)
CommonPrefix(p, q) ==
    IF p = <<>> \/ q = <<>> \/ Head(p) # Head(q) THEN 0
    ELSE 1 + CommonPrefix(Tail(p), Tail(q))

\* os.path.relpath(path, start)
Relpath(path, start) ==
    LET p == Abspath(path)
        s == Abspath(start)
        i == CommonPrefix(p, s)
    IN  [k \in 1..(Len(s) - i) |-> ".."] \o SubSeq(p, i + 1, Len(p))

EmptyProjectData == [receptors |-> <<>>, ligands |-> <<>>, sessions |-> <<>>]

NoManifest == [state |-> "none", data |-> EmptyProjectData]

\* An entry of a registry: 'name' and 'path' (or 'session_file') as the code
\* stores them; file is the file the entry was made for.
FileInfo(name, stored_path) ==
    [name |-> name, path |-> stored_path, file |-> Abspath(stored_path)]

\* One stored path as _update_paths_to_relative (lines 401, 406, 411) or
\* _update_paths_to_absolute (lines 421, 426, 431) rewrites it.
ConvertPath(p, root, to_relative) ==
    IF to_relative
    THEN IF IsAbs(p) THEN Relpath(p, root) ELSE p
    ELSE IF ~IsAbs(p) THEN Join(root, p) ELSE p

MapPaths(data, root, to_relative) ==
    [receptors |-> [i \in DOMAIN data.receptors |->
                      [data.receptors[i] EXCEPT !.path = ConvertPath(@, root, to_relative)]],
     ligands   |-> [i \in DOMAIN data.ligands |->
                      [data.ligands[i] EXCEPT !.path = ConvertPath(@, root, to_relative)]],
     sessions  |-> [i \in DOMAIN data.sessions |->
                      [data.sessions[i] EXCEPT !.path = ConvertPath(@, root, to_relative)]]]

\* _update_paths_to_relative, lines 394-412
UpdatePathsToRelative(data, root) ==
    IF root = <<>> THEN data ELSE MapPaths(data, root, TRUE)

\* _update_paths_to_absolute, lines 414-432
UpdatePathsToAbsolute(data, root) ==
    IF root = <<>> THEN data ELSE MapPaths(data, root, FALSE)

\* _save_project_file, lines 388-392
SaveProjectFile(json, data, w) ==
    CASE w = "ok"         -> [state |-> "ok", data |-> data]
      [] w = "fail_open"  -> json
      [] w = "fail_trunc" -> [state |-> "corrupt", data |-> EmptyProjectData]

\* save_project, lines 118-133, on the manifest 'data': what is in memory
\* and on disk when it returns or raises.
SaveProject(data, root, json, w) ==
    LET relative == UpdatePathsToRelative(data, root)
    IN  [data   |-> IF w = "ok" THEN UpdatePathsToAbsolute(relative, root)
                    ELSE relative,
         json   |-> SaveProjectFile(json, relative, w),
         raised |-> w # "ok"]

AllPaths(data) ==
    {data.receptors[i].path : i \in DOMAIN data.receptors}
        \cup {data.ligands[i].path : i \in DOMAIN data.ligands}
        \cup {data.sessions[i].path : i \in DOMAIN data.sessions}

AllEntries(data) ==
    {data.receptors[i] : i \in DOMAIN data.receptors}
        \cup {data.ligands[i] : i \in DOMAIN data.ligands}
        \cup {data.sessions[i] : i \in DOMAIN data.sessions}

Names(entries) == [i \in DOMAIN entries |-> entries[i].name]

InitPM ==
    /\ current_project_path = <<>>
    /\ project_data = EmptyProjectData
    /\ project_json = NoManifest
    /\ project_files = InitialFiles
    /\ pm_phase = "other"
    /\ pm_saved = EmptyProjectData
    /\ pm_ops = 0

\* Every call is counted, whether it returns or raises.
PMCall ==
    /\ pm_ops < MaxOps
    /\ pm_ops' = pm_ops + 1

\* pm_saved is kept while a load_project of the saved manifest may follow.
KeepSaved(phase) ==
    IF phase \in {"saved", "loaded"} THEN pm_saved ELSE EmptyProjectData

\* create_new_project, lines 20-78.  The folder is new: there is no
\* manifest in it yet.
create_new_project ==
    \E base \in BaseDirectories, w \in WriteOutcomes :
        LET project_path == Join(base, <<"P">>)
        IN  /\ project_json.state = "none"
            /\ PMCall
            /\ project_data' = EmptyProjectData
            /\ current_project_path' = project_path
            /\ project_json' = SaveProjectFile(project_json, EmptyProjectData, w)
            /\ pm_phase' = IF w = "ok" THEN "created" ELSE "other"
            /\ UNCHANGED project_files
            /\ pm_saved' = KeepSaved(pm_phase')
            /\ UNCHANGED <<vars_mw, vars_fm, vars_cfg, vars_fn, vars_lk, vars_cc>>

\* load_project, lines 80-111.
load_project ==
    \E project_path \in ProjectPaths :
        IF project_json.state = "ok"
        THEN /\ PMCall
             /\ project_data' = UpdatePathsToAbsolute(project_json.data, project_path)
             /\ current_project_path' = project_path
             /\ pm_phase' = IF pm_phase \in {"saved", "loaded"} THEN "loaded"
                            ELSE "other"
             /\ UNCHANGED <<project_json, project_files>>
             /\ pm_saved' = KeepSaved(pm_phase')
             /\ UNCHANGED <<vars_mw, vars_fm, vars_cfg, vars_fn, vars_lk, vars_cc>>
        ELSE \* lines 97-98, or json.load raises: nothing was assigned
             /\ PMCall
             /\ pm_phase' = "other"
             /\ UNCHANGED <<current_project_path, project_data, project_json,
                            project_files>>
             /\ pm_saved' = KeepSaved(pm_phase')
             /\ UNCHANGED <<vars_mw, vars_fm, vars_cfg, vars_fn, vars_lk, vars_cc>>

\* save_project, lines 113-133.
save_project ==
    \E w \in WriteOutcomes :
        IF current_project_path = <<>>
        THEN /\ PMCall
             /\ pm_phase' = "other"
             /\ UNCHANGED <<current_project_path, project_data, project_json,
                            project_files>>
             /\ pm_saved' = KeepSaved(pm_phase')
             /\ UNCHANGED <<vars_mw, vars_fm, vars_cfg, vars_fn, vars_lk, vars_cc>>
        ELSE LET s == SaveProject(project_data, current_project_path,
                                  project_json, w)
             IN  /\ PMCall
                 /\ project_data' = s.data
                 /\ project_json' = s.json
                 /\ pm_phase' = IF ~s.raised /\ pm_phase \in {"created", "saved"}
                                THEN "saved" ELSE "other"
                 /\ pm_saved' = IF pm_phase' = "saved" THEN s.data ELSE EmptyProjectData
                 /\ UNCHANGED <<current_project_path, project_files>>
                 /\ UNCHANGED <<vars_mw, vars_fm, vars_cfg, vars_fn, vars_lk, vars_cc>>

\* The phase after add_receptor / add_ligands.
PhaseAfterAdd(copy, raised) ==
    IF copy /\ ~raised /\ pm_phase \in {"created", "saved"} THEN "created"
    ELSE "other"

\* add_receptor, lines 135-176.
add_receptor ==
    \E receptor_path \in SourceFiles, copy_file \in BOOLEAN, w \in WriteOutcomes :
        /\ Len(project_data.receptors) < MaxEntries
        /\ IF current_project_path = <<>> \/ ~Exists(project_files, receptor_path)
           THEN \* "No project loaded", or copy2 / getsize raises
                /\ PMCall
                /\ pm_phase' = "other"
                /\ UNCHANGED <<current_project_path, project_data, project_json,
                               project_files>>
                /\ pm_saved' = KeepSaved(pm_phase')
           ELSE LET receptor_name == Basename(receptor_path)
                    project_receptor_path ==
                        Join(current_project_path, <<"receptors", receptor_name>>)
                    stored_path == IF copy_file THEN project_receptor_path
                                   ELSE receptor_path
                    added == [project_data EXCEPT !.receptors =
                                 Append(@, FileInfo(receptor_name, stored_path))]
                    s == SaveProject(added, current_project_path, project_json, w)
                IN  /\ PMCall
                    /\ project_files' = IF copy_file
                                        THEN project_files \cup {Abspath(project_receptor_path)}
                                        ELSE project_files
                    /\ project_data' = s.data
                    /\ project_json' = s.json
                    /\ pm_phase' = PhaseAfterAdd(copy_file, s.raised)
                    /\ UNCHANGED current_project_path
                    /\ pm_saved' = KeepSaved(pm_phase')
        /\ UNCHANGED <<vars_mw, vars_fm, vars_cfg, vars_fn, vars_lk, vars_cc>>

\* The loop of add_ligands, lines 195-217: the ligands appended and the
\* files copied until the list ends or a source file raises.
RECURSIVE AddLigandsLoop(_, _, _, _, _)
AddLigandsLoop(ligands, files, ligand_paths, copy_files, root) ==
    IF ligand_paths = <<>>
    THEN [ligands |-> ligands, files |-> files, raised |-> FALSE]
    ELSE LET ligand_path == Head(ligand_paths)
             ligand_name == Basename(ligand_path)
             project_ligand_path == Join(root, <<"ligands", ligand_name>>)
             stored_path == IF copy_files THEN project_ligand_path ELSE ligand_path
         IN  IF ~Exists(files, ligand_path)
             THEN [ligands |-> ligands, files |-> files, raised |-> TRUE]
             ELSE AddLigandsLoop(
                      Append(ligands, FileInfo(ligand_name, stored_path)),
                      IF copy_files THEN files \cup {Abspath(project_ligand_path)}
                      ELSE files,
                      Tail(ligand_paths), copy_files, root)

\* add_ligands, lines 178-223.
add_ligands ==
    \E n \in 1..MaxEntries, copy_files \in BOOLEAN, w \in WriteOutcomes :
      \E ligand_paths \in [1..n -> SourceFiles] :
        /\ Len(project_data.ligands) + n <= MaxEntries
        /\ IF current_project_path = <<>>
           THEN /\ PMCall
                /\ pm_phase' = "other"
                /\ UNCHANGED <<current_project_path, project_data, project_json,
                               project_files>>
                /\ pm_saved' = KeepSaved(pm_phase')
           ELSE LET loop == AddLigandsLoop(project_data.ligands, project_files,
                                           ligand_paths, copy_files,
                                           current_project_path)
                    added == [project_data EXCEPT !.ligands = loop.ligands]
                    s == SaveProject(added, current_project_path, project_json, w)
                IN  /\ project_files' = loop.files
                    /\ IF loop.raised
                       THEN \* the except clause: save_project is not reached
                            /\ PMCall
                            /\ project_data' = added
                            /\ pm_phase' = "other"
                            /\ UNCHANGED project_json
                       ELSE /\ PMCall
                            /\ project_data' = s.data
                            /\ project_json' = s.json
                            /\ pm_phase' = PhaseAfterAdd(copy_files, s.raised)
                    /\ UNCHANGED current_project_path
                    /\ pm_saved' = KeepSaved(pm_phase')
        /\ UNCHANGED <<vars_mw, vars_fm, vars_cfg, vars_fn, vars_lk, vars_cc>>

\* save_docking_session, lines 225-300: the session folder and session.json
\* are written, the summary is appended and the project is saved.
save_docking_session ==
    \E w \in WriteOutcomes :
        /\ Len(project_data.sessions) < 1
        /\ IF current_project_path = <<>>
           THEN /\ PMCall
                /\ UNCHANGED <<current_project_path, project_data, project_json,
                               project_files>>
                /\ pm_saved' = EmptyProjectData
           ELSE LET session_file == Join(current_project_path,
                                         <<"docking_runs", "session.json">>)
                    added == [project_data EXCEPT !.sessions =
                                 Append(@, FileInfo("docking_session", session_file))]
                    s == SaveProject(added, current_project_path, project_json, w)
                IN  /\ PMCall
                    /\ project_files' = project_files \cup {Abspath(session_file)}
                    /\ project_data' = s.data
                    /\ project_json' = s.json
                    /\ UNCHANGED current_project_path
                    /\ pm_saved' = EmptyProjectData
        /\ pm_phase' = "other"
        /\ UNCHANGED <<vars_mw, vars_fm, vars_cfg, vars_fn, vars_lk, vars_cc>>

NextPM ==
    \/ create_new_project
    \/ load_project
    \/ save_project
    \/ add_receptor
    \/ add_ligands
    \/ save_docking_session

\* =====================================================================
\*  ConfigManager: _deep_merge, load_config over defaults, the getters
\* =====================================================================
\* A JSON value is a record: kind "map" with a function from keys to values,
\* kind "list" with a sequence, kind "scalar" with a number or a string.
\* A function is applied once to arguments drawn from a bounded set:
\* fn_op names it, fn_in holds the arguments and fn_out the result.

Scalar(x) == [kind |-> "scalar", val |-> x]

List(s) == [kind |-> "list", val |-> s]

Map(f) == [kind |-> "map", val |-> f]

\* isinstance(value, dict)
IsMap(v) == v.kind = "map"

\* All dictionaries with keys among 'keys' and values among 'values'.
MapsOver(keys, values) == UNION {[d -> values] : d \in SUBSET keys}

\* _deep_merge, lines 98-107, on the dictionaries base and update.
DeepMergeShallow(base, update) ==
    [key \in DOMAIN base \cup DOMAIN update |->
        IF key \in DOMAIN update THEN update[key] ELSE base[key]]

RECURSIVE DeepMerge(_, _)
DeepMerge(base, update) ==
    [key \in DOMAIN base \cup DOMAIN update |->
        IF key \in DOMAIN update
        THEN IF key \in DOMAIN base /\ IsMap(base[key]) /\ IsMap(update[key])
             THEN Map(DeepMerge(base[key].val, update[key].val))
             ELSE update[key]
        ELSE base[key]]

\* The arguments _deep_merge is applied to: dictionaries over two keys, two
\* levels deep, whose leaves tell the base from the update.
MergeKeys == {"k1", "k2"}

BaseLeaves == {Scalar("b"), List(<<"b1", "b2">>)}

UpdateLeaves == {Scalar("u"), List(<<"u1">>)}

BaseMaps ==
    MapsOver(MergeKeys,
             BaseLeaves \cup {Map(m) : m \in MapsOver(MergeKeys, BaseLeaves)})

UpdateMaps ==
    MapsOver(MergeKeys,
             UpdateLeaves \cup {Map(m) : m \in MapsOver(MergeKeys, UpdateLeaves)})

deep_merge ==
    /\ fn_op = "none"
    /\ \E base \in BaseMaps, update \in UpdateMaps :
        /\ fn_op' = "_deep_merge"
        /\ fn_in' = [base |-> base, update |-> update]
        /\ fn_out' = DeepMerge(base, update)
        /\ UNCHANGED <<vars_mw, vars_fm, vars_cfg, vars_pm, vars_lk, vars_cc>>

\* _get_default_config, lines 18-77: every category, with the keys the
\* getters below are asked for.
default_config ==
    [executables |-> Map([vina |-> Scalar("vina"), obabel |-> Scalar("obabel")]),
     platform_settings |-> Map(
        [windows |-> Map([vina |-> Scalar("C:\\Program Files (x86)\\PyRx\\vina.exe"),
                          obabel |-> Scalar("C:\\Program Files (x86)\\OpenBabel-3.1.1\\obabel.exe")]),
         linux   |-> Map([vina |-> Scalar("vina"), obabel |-> Scalar("obabel")]),
         darwin  |-> Map([vina |-> Scalar("vina"), obabel |-> Scalar("obabel")])]),
     docking |-> Map([default_exhaustiveness |-> Scalar("8"),
                      adaptive_exhaustiveness_thresholds |-> List(<<7, 12>>),
                      adaptive_exhaustiveness_values |-> List(<<8, 16, 32>>)]),
     file_formats |-> Map([supported_receptor_formats |-> List(<<".pdb">>)]),
     ui |-> Map([default_viewer |-> Scalar("VMD")]),
     network |-> Map([timeout |-> Scalar("30")]),
     temp |-> Map([temp_dir_prefix |-> Scalar("simdock_")])]

\* The categories read by get_docking_setting, get_file_formats,
\* get_ui_setting, get_network_setting and get_temp_setting.
SettingCategories == {"docking", "file_formats", "ui", "network", "temp"}

Programs == {"vina", "obabel"}

\* sys.platform
Platforms == {"win32", "linux", "darwin"}

\* What a getter does when it raises.
Raises(e) == [kind |-> "raises", val |-> e]

\* self.config[category].get(key, default), lines 126-144.
GetSetting(cfg, category, key, default) ==
    IF ~IsMap(cfg[category]) THEN Raises("AttributeError")
    ELSE IF key \in DOMAIN cfg[category].val THEN cfg[category].val[key]
         ELSE default

\* get_platform_config, lines 109-113.
get_platform_config(cfg, platform) ==
    LET platform_key == IF platform = "win32" THEN "windows" ELSE platform
    IN  IF ~IsMap(cfg.platform_settings) THEN Raises("AttributeError")
        ELSE IF platform_key \in DOMAIN cfg.platform_settings.val
             THEN cfg.platform_settings.val[platform_key]
             ELSE Map(<<>>)

\* get_executable_path with the generic map consulted first.
GenericFirst(cfg, platform, program) ==
    LET platform_config == get_platform_config(cfg, platform)
    IN  IF IsMap(cfg.executables) /\ program \in DOMAIN cfg.executables.val
        THEN cfg.executables.val[program]
        ELSE IF IsMap(platform_config) /\ program \in DOMAIN platform_config.val
             THEN platform_config.val[program]
             ELSE Scalar(program)

\* get_executable_path, lines 115-124.
get_executable_path(cfg, platform, program) ==
    LET platform_config == get_platform_config(cfg, platform)
    IN  IF platform_config.kind = "raises" THEN platform_config
        ELSE IF ~IsMap(platform_config) THEN Raises("TypeError")
        ELSE IF program \in DOMAIN platform_config.val
             THEN platform_config.val[program]
             ELSE GetSetting(cfg, "executables", program, Scalar(program))

\* config.json as load_config finds it: absent, not JSON, or a JSON value.
AbsentFile == [state |-> "absent", json |-> Scalar("")]

MalformedFile == [state |-> "malformed", json |-> Scalar("")]

\* What a configuration file may say about a category: nothing ("unset"), a
\* number in place of the mapping, or a mapping that sets one key.
SettingChoices(category) ==
    {"unset", "number"} \cup DOMAIN default_config[category].val

\* About the executables: nothing, a number, or a generic path of vina.
\* About the platforms: nothing, a number, the path of vina on one
\* platform, or a number in place of the Linux mapping.
FileChoices ==
    [docking : SettingChoices("docking"),
     file_formats : SettingChoices("file_formats"),
     ui : SettingChoices("ui"),
     network : SettingChoices("network"),
     temp : SettingChoices("temp"),
     executables : {"unset", "number", "vina"},
     platform_settings : {"unset", "number", "linux", "windows", "linux_number"}]

FileValue(category, choice) ==
    IF choice = "number" THEN Scalar("5")
    ELSE IF category = "platform_settings"
    THEN IF choice = "linux_number" THEN Map([k \in {"linux"} |-> Scalar("5")])
         ELSE Map([k \in {choice} |->
                     Map([g \in {"vina"} |-> Scalar("/usr/local/bin/vina")])])
    ELSE IF category = "executables"
    THEN Map([g \in {"vina"} |-> Scalar("/opt/vina")])
    ELSE Map([k \in {choice} |-> Scalar("from file")])

FileMapping(choices) ==
    [category \in {c \in DOMAIN choices : choices[c] # "unset"} |->
        FileValue(category, choices[category])]

JsonFiles == {[state |-> "json", json |-> Map(FileMapping(ch))] : ch \in FileChoices}

\* A file whose JSON value is not a mapping.
ListFile == [state |-> "json", json |-> List(<<"1", "2">>)]

ConfigFiles == JsonFiles \cup {AbsentFile, MalformedFile, ListFile}

\* self.config after load_config, lines 79-96: the merge over the
\* defaults, or the defaults when the file is absent or the try block
\* raises (json.load on a malformed file, _deep_merge on a non-mapping).
LoadedConfig(file) ==
    IF file.state = "json" /\ IsMap(file.json)
    THEN DeepMerge(default_config, file.json.val)
    ELSE default_config

load_config_file ==
    /\ fn_op = "none"
    /\ \E file \in ConfigFiles, platform \in Platforms :
        /\ fn_op' = "load_config"
        /\ fn_in' = [file |-> file, platform |-> platform]
        /\ fn_out' = LoadedConfig(file)
        /\ UNCHANGED <<vars_mw, vars_fm, vars_cfg, vars_pm, vars_lk, vars_cc>>

\* The configurations get_executable_path is asked about: any of the
\* platform maps and the generic map may hold any of the programs.
PlatformKeys == {"windows", "linux", "win32"}

PathOf(where, program) ==
    Scalar([executables |-> [vina |-> "generic vina", obabel |-> "generic obabel"],
            windows |-> [vina |-> "windows vina", obabel |-> "windows obabel"],
            linux   |-> [vina |-> "linux vina", obabel |-> "linux obabel"],
            win32   |-> [vina |-> "win32 vina", obabel |-> "win32 obabel"]
           ][where][program])

ExecutableConfigs ==
    {[executables |-> Map([g \in e |-> PathOf("executables", g)]),
      platform_settings |-> Map([k \in DOMAIN p |->
                                    Map([g \in p[k] |-> PathOf(k, g)])])] :
        e \in SUBSET Programs, p \in MapsOver(PlatformKeys, SUBSET Programs)}

executable_path ==
    /\ fn_op = "none"
    /\ \E cfg \in ExecutableConfigs, platform \in Platforms,
       program \in Programs \cup {"chimerax"} :
        /\ fn_op' = "get_executable_path"
        /\ fn_in' = [config |-> cfg, platform |-> platform, program |-> program]
        /\ fn_out' = get_executable_path(cfg, platform, program)
        /\ UNCHANGED <<vars_mw, vars_fm, vars_cfg, vars_pm, vars_lk, vars_cc>>

\* ---- create_config_wizard

\* The programs the wizard asks about, in its order.
WizardPrograms == <<"obabel", "vina", "chimerax", "vmd">>

\* What may be typed at a prompt, stripped: nothing or a path.
EnteredPaths == {"", "/opt/entered", "/usr/local/entered"}

Answers == [{WizardPrograms[i] : i \in 1..Len(WizardPrograms)} -> EnteredPaths]

\* The configurations the wizard starts from: the defaults, alone or with a
\* Linux path of vina read from config.json.
WizardConfigs ==
    {default_config,
     DeepMerge(default_config,
               [platform_settings |->
                   Map([k \in {"linux"} |->
                          Map([g \in {"vina"} |-> Scalar("/usr/local/bin/vina")])])])}

\* d[key] = value on a dictionary.
Put(d, key, value) ==
    [k \in DOMAIN d \cup {key} |-> IF k = key THEN value ELSE d[k]]

\* set_setting, lines 146-156, on the configuration cfg; an item assignment
\* on a value that is no dictionary raises and leaves cfg as it was.
SetSetting(cfg, category, key, value) ==
    IF category \in DOMAIN cfg
    THEN IF IsMap(cfg[category])
         THEN [cfg EXCEPT ![category] = Map(Put(@.val, key, value))]
         ELSE cfg
    ELSE Put(cfg, category, Map(Put(<<>>, key, value)))

\* lines 300-326, one prompt: a blank answer changes nothing, any other is
\* stored under sys.platform in a copy of the platform_config of line 298.
AnswerStored(cfg, platform, platform_config, program, answer) ==
    IF answer = "" THEN cfg
    ELSE SetSetting(cfg, "platform_settings", platform,
                    Map(Put(platform_config.val, program, Scalar(answer))))

RECURSIVE AskFrom(_, _, _, _, _)
AskFrom(i, cfg, platform, platform_config, answers) ==
    IF i > Len(WizardPrograms) THEN cfg
    ELSE AskFrom(i + 1,
                 AnswerStored(cfg, platform, platform_config, WizardPrograms[i],
                              answers[WizardPrograms[i]]),
                 platform, platform_config, answers)

\* create_config_wizard, lines 290-350, with save_config succeeding: the
\* configuration in memory and in config.json afterwards.
CreateConfigWizard(cfg, platform, answers) ==
    LET platform_config == get_platform_config(cfg, platform)
    IN  IF ~IsMap(platform_config) THEN cfg
        ELSE AskFrom(1, cfg, platform, platform_config, answers)

create_config_wizard ==
    /\ fn_op = "none"
    /\ \E cfg \in WizardConfigs, platform \in Platforms, answers \in Answers :
        /\ fn_op' = "create_config_wizard"
        /\ fn_in' = [config |-> cfg, platform |-> platform, answers |-> answers]
        /\ fn_out' = CreateConfigWizard(cfg, platform, answers)
        /\ UNCHANGED <<vars_mw, vars_fm, vars_cfg, vars_pm, vars_lk, vars_cc>>

NextWizard == create_config_wizard

NextConfig ==
    \/ deep_merge
    \/ load_config_file
    \/ executable_path

\* =====================================================================
\*  Docking engine: adaptive exhaustiveness, parameter validation
\* =====================================================================

\* Largest rotatable-bond count drawn, beside the count 100.
MaxRotBonds == 14

RotBondCounts == 0..MaxRotBonds \cup {100}

\* What the configuration may hold under the two adaptive-exhaustiveness
\* keys of the "docking" category; <<>> stands for a key that is not set.
ThresholdSettings == {<<>>, <<7, 12>>, <<3, 3>>, <<9, 4>>}

ValueSettings == {<<>>, <<8, 16, 32>>, <<1, 2, 3>>}

DockingConfig(thresholds, values) ==
    [docking |-> Map(
        [k \in (IF thresholds = <<>> THEN {} ELSE {"adaptive_exhaustiveness_thresholds"})
               \cup (IF values = <<>> THEN {} ELSE {"adaptive_exhaustiveness_values"})
           |-> IF k = "adaptive_exhaustiveness_thresholds" THEN List(thresholds)
               ELSE List(values)])]

\* get_adaptive_exhaustiveness with strict comparisons.
AdaptiveStrict(cfg, rot_bonds) ==
    LET thresholds == GetSetting(cfg, "docking",
                          "adaptive_exhaustiveness_thresholds", List(<<7, 12>>)).val
        values == GetSetting(cfg, "docking",
                      "adaptive_exhaustiveness_values", List(<<8, 16, 32>>)).val
    IN  IF rot_bonds < thresholds[1] THEN values[1]
        ELSE IF rot_bonds < thresholds[2] THEN values[2]
        ELSE values[3]

\* get_adaptive_exhaustiveness, lines 84-99, for the count that
\* get_rotatable_bonds returned.
get_adaptive_exhaustiveness(cfg, rot_bonds) ==
    LET thresholds == GetSetting(cfg, "docking",
                          "adaptive_exhaustiveness_thresholds", List(<<7, 12>>)).val
        values == GetSetting(cfg, "docking",
                      "adaptive_exhaustiveness_values", List(<<8, 16, 32>>)).val
    IN  IF rot_bonds <= thresholds[1] THEN values[1]
        ELSE IF rot_bonds <= thresholds[2] THEN values[2]
        ELSE values[3]

adaptive_exhaustiveness ==
    /\ fn_op = "none"
    /\ \E thresholds \in ThresholdSettings, values \in ValueSettings,
          rot_bonds \in RotBondCounts :
        /\ fn_op' = "get_adaptive_exhaustiveness"
        /\ fn_in' = [config |-> DockingConfig(thresholds, values),
                     thresholds |-> thresholds, values |-> values,
                     rot_bonds |-> rot_bonds]
        /\ fn_out' = get_adaptive_exhaustiveness(DockingConfig(thresholds, values),
                                                 rot_bonds)
        /\ UNCHANGED <<vars_mw, vars_fm, vars_cfg, vars_pm, vars_lk, vars_cc>>

\* A coordinate or a box size as validate_parameters receives it: a number,
\* in tenths of an angstrom, or a value that is not a number.
Number(tenths) == [kind |-> "number", val |-> tenths]

NotANumber == [kind |-> "str", val |-> 0]

CenterValues == {Number(0), Number(-125), NotANumber}

SizeValues == {Number(-10), Number(0), Number(5), Number(9), Number(10),
               Number(200), Number(2000), Number(2001), Number(2500), NotANumber}

\* all(s > 0 for s in size), line 241, stops at the first size that is not
\* positive or cannot be compared with 0; 0 when there is none.
FirstNotPositive(size) ==
    LET stops == {i \in 1..3 : size[i].kind # "number" \/ size[i].val <= 0}
    IN  IF stops = {} THEN 0
        ELSE CHOOSE i \in stops : \A j \in stops : i <= j

\* validate_parameters with the two limits excluded.
ValidateExclusive(center, size) ==
    IF \E i \in 1..3 : center[i].kind # "number" THEN "False"
    ELSE IF FirstNotPositive(size) # 0
         THEN IF size[FirstNotPositive(size)].kind # "number" THEN "TypeError"
              ELSE "False"
    ELSE IF \E i \in 1..3 : size[i].val <= 10 \/ size[i].val >= 2000 THEN "False"
    ELSE "True"

\* validate_parameters, lines 233-248.  Comparing a size that is not a
\* number with 0 raises TypeError.
validate_parameters(center, size) ==
    IF \E i \in 1..3 : center[i].kind # "number" THEN "False"
    ELSE IF FirstNotPositive(size) # 0
         THEN IF size[FirstNotPositive(size)].kind # "number" THEN "TypeError"
              ELSE "False"
    ELSE IF \E i \in 1..3 : size[i].val < 10 \/ size[i].val > 2000 THEN "False"
    ELSE "True"

validate_parameters_call ==
    /\ fn_op = "none"
    /\ \E center \in [1..3 -> CenterValues], size \in [1..3 -> SizeValues] :
        /\ fn_op' = "validate_parameters"
        /\ fn_in' = [center |-> center, size |-> size]
        /\ fn_out' = validate_parameters(center, size)
        /\ UNCHANGED <<vars_mw, vars_fm, vars_cfg, vars_pm, vars_lk, vars_cc>>

\* ---------------------------------------------------------------------
\*  parse_output: a line is the sequence of its characters
\* ---------------------------------------------------------------------

\* Longest line and largest number of lines drawn.
MaxLineLen == 7
MaxOutputLines == 3

\* \s, \d and [-\d\.] of the pattern, line 218.
Whitespace == {" ", "\t"}

Digits == {"0", "1", "2", "3", "4", "5", "6", "7", "8", "9"}

FieldChars == Digits \cup {"-", "."}

\* The end of the longest run of characters of 'class' that starts at i.
RECURSIVE RunEnd(_, _, _)
RunEnd(line, i, class) ==
    IF i > Len(line) \/ line[i] \notin class THEN i
    ELSE RunEnd(line, i + 1, class)

\* pattern.match(line), line 221: the four groups, or <<>> for no match.
\* The character classes that follow one another are disjoint, so the
\* greedy match is the only one.
Match(line) ==
    LET a == RunEnd(line, 1, Whitespace)
        b == RunEnd(line, a, Digits)
        c == RunEnd(line, b, Whitespace)
        d == RunEnd(line, c, FieldChars)
        e == RunEnd(line, d, Whitespace)
        f == RunEnd(line, e, FieldChars)
        g == RunEnd(line, f, Whitespace)
        h == RunEnd(line, g, FieldChars)
    IN  IF b > a /\ c > b /\ d > c /\ e > d /\ f > e /\ g > f /\ h > g
        THEN <<SubSeq(line, a, b - 1), SubSeq(line, c, d - 1),
               SubSeq(line, e, f - 1), SubSeq(line, g, h - 1)>>
        ELSE <<>>

DigitValue ==
    [ch \in Digits |->
        CASE ch = "0" -> 0 [] ch = "1" -> 1 [] ch = "2" -> 2 [] ch = "3" -> 3
          [] ch = "4" -> 4 [] ch = "5" -> 5 [] ch = "6" -> 6 [] ch = "7" -> 7
          [] ch = "8" -> 8 [] ch = "9" -> 9]

\* int(mode) of a string of digits
RECURSIVE IntOf(_)
IntOf(digits) ==
    IF digits = <<>> THEN 0
    ELSE 10 * IntOf(SubSeq(digits, 1, Len(digits) - 1))
         + DigitValue[digits[Len(digits)]]

\* float(text) accepts a string over [-\d\.] when it is an optional minus
\* sign and then digits with at most one point and at least one digit.
IsFloat(text) ==
    LET body == IF text # <<>> /\ text[1] = "-" THEN Tail(text) ELSE text
    IN  /\ \A i \in DOMAIN body : body[i] # "-"
        /\ Cardinality({i \in DOMAIN body : body[i] = "."}) <= 1
        /\ \E i \in DOMAIN body : body[i] \in Digits

RECURSIVE StripZeros(_)
StripZeros(digits) ==
    IF digits # <<>> /\ digits[Len(digits)] = "0"
    THEN StripZeros(SubSeq(digits, 1, Len(digits) - 1))
    ELSE digits

\* float(text): the number, as sign, whole part and decimals.
FloatOf(text) ==
    LET body == IF text[1] = "-" THEN Tail(text) ELSE text
        point == RunEnd(body, 1, Digits)
        whole == IntOf(SubSeq(body, 1, point - 1))
        frac == StripZeros(SubSeq(body, point + 1, Len(body)))
    IN  [neg |-> text[1] = "-" /\ (whole # 0 \/ frac # <<>>),
         whole |-> whole, frac |-> frac]

Score(groups) ==
    [Mode |-> IntOf(groups[1]), Affinity |-> FloatOf(groups[2]),
     RMSD_LB |-> FloatOf(groups[3]), RMSD_UB |-> FloatOf(groups[4])]

\* parse_output, lines 215-231: the scores, or the ValueError that float()
\* raises out of the loop.
RECURSIVE ParseLines(_, _)
ParseLines(lines, scores) ==
    IF lines = <<>> THEN [kind |-> "scores", scores |-> scores]
    ELSE LET groups == Match(Head(lines))
         IN  IF groups = <<>> THEN ParseLines(Tail(lines), scores)
             ELSE IF \E i \in 2..4 : ~IsFloat(groups[i])
                  THEN [kind |-> "ValueError", scores |-> <<>>]
                  ELSE ParseLines(Tail(lines), Append(scores, Score(groups)))

parse_output(lines) == ParseLines(lines, <<>>)

\* Every line of at most MaxLineLen characters over a space, a digit, the
\* minus sign and the point.
ShortLines == UNION {[1..n -> {" ", "1", "-", "."}] : n \in 0..MaxLineLen}

\* The lines of the docking program's result table.
HeaderLine == <<"m", "o", "d", "e", " ", "|", " ", "a", "f", "f">>

UnitLine == <<" ", " ", "|", " ", "(", "k", "c", "a", "l", ")">>

SeparatorLine == <<"-", "-", "-", "+", "-", "-", "-", "+", "-", "-">>

Row1 == <<" ", " ", "1", " ", " ", "-", "7", ".", "2", " ", " ",
          "0", ".", "0", "0", "0", " ", " ", "0", ".", "0", "0", "0">>

Row2 == <<"\t", "2", " ", "-", "6", ".", "8", " ", "1", ".", "3", " ",
          "2", ".", "1">>

\* A row whose affinity is printed as dashes.
DashRow == <<"3", " ", "-", "-", " ", "0", ".", "0", " ", "0", ".", "0">>

TableLines == {HeaderLine, UnitLine, SeparatorLine, Row1, Row2, DashRow}

SpecTable == <<HeaderLine, UnitLine, SeparatorLine, Row1, Row2>>

Outputs ==
    {<<line>> : line \in ShortLines}
        \cup UNION {[1..n -> TableLines] : n \in 2..MaxOutputLines}
        \cup {SpecTable}

parse_output_call ==
    /\ fn_op = "none"
    /\ \E output \in Outputs :
        /\ fn_op' = "parse_output"
        /\ fn_in' = [output |-> output]
        /\ fn_out' = parse_output(output)
        /\ UNCHANGED <<vars_mw, vars_fm, vars_cfg, vars_pm, vars_lk, vars_cc>>

NextEngine ==
    \/ adaptive_exhaustiveness
    \/ validate_parameters_call
    \/ parse_output_call

\* =====================================================================
\*  MainWindow: thread_lock and the fields written under it
\* =====================================================================

\* Docking threads that may be launched, and the longest ligand library.
MaxLockRuns == 2
MaxBatch == 2

UIThread == 0

LockWorkers == 1..MaxLockRuns

Threads == {UIThread} \cup LockWorkers

\* Lock.acquire without waiting for the lock to be free.
AcquireNoWait(t) == thread_lock' = thread_lock \cup {t}

\* "with self.thread_lock:" entered: Lock.acquire blocks while the lock is
\* held.
Acquire(t) ==
    /\ thread_lock = {}
    /\ thread_lock' = {t}

\* The with statement left, by its last statement, a return or an exception.
Release(t) == thread_lock' = thread_lock \ {t}

\* The with statements, lines 480, 568, 599, 620, 646 and 667: where the
\* thread stands before each and at its first statement.
AcquireNext ==
    ("ui_480" :> "ui_481") @@ ("s_568" :> "s_569") @@ ("b_599" :> "b_600")
        @@ ("b_620" :> "b_621") @@ ("b_646" :> "b_647") @@ ("b_667" :> "b_668")

WriteStep(field, next) == [field |-> field, next |-> next]

\* The statements that write a guarded field, by line, and what follows.
WriteSteps ==
    ("ui_481" :> WriteStep("last_results", "ui_482"))
        @@ ("ui_482" :> WriteStep("batch_results_summary", "ui_483"))
        @@ ("ui_483" :> WriteStep("full_batch_results", "ui_exit"))
        @@ ("s_569" :> WriteStep("last_results", "s_570"))
        @@ ("s_570" :> WriteStep("single_docking_output_path", "s_571"))
        @@ ("s_571" :> WriteStep("receptor_pdbqt_path", "s_exit"))
        @@ ("b_600" :> WriteStep("batch_results_summary", "b_601"))
        @@ ("b_601" :> WriteStep("full_batch_results", "b_exit599"))
        @@ ("b_621" :> WriteStep("batch_results_summary", "b_exit620"))
        @@ ("b_650" :> WriteStep("full_batch_results", "b_654"))
        @@ ("b_654" :> WriteStep("batch_results_summary", "b_exit646"))
        @@ ("b_668" :> WriteStep("receptor_pdbqt_path", "b_exit667"))

\* The ends of the with statements and where the thread goes on; "b_raised"
\* is line 648 or 650 raising inside the statement of line 646.
ReleaseNext ==
    ("ui_exit" :> "ui_502") @@ ("s_exit" :> "s_574") @@ ("b_exit599" :> "b_loop")
        @@ ("b_exit620" :> "b_next") @@ ("b_exit646" :> "b_next")
        @@ ("b_exit667" :> "b_671") @@ ("b_raised" :> "b_674")

\* The positions inside a with statement.
InBlock(pc) == pc \in DOMAIN WriteSteps \cup DOMAIN ReleaseNext \cup {"b_647"}

GuardedFields == {"last_results", "batch_results_summary", "full_batch_results",
                  "receptor_pdbqt_path", "single_docking_output_path"}

IdleThread == [pc |-> "idle", i |-> 0, n |-> 0]

InitLock ==
    /\ thread_lock = {}
    /\ lk_thread = [t \in Threads |-> IdleThread]
    /\ lk_last_write = [field |-> "none", by |-> UIThread, held |-> TRUE]
    /\ lk_is_docking = FALSE
    /\ lk_pending = 0
    /\ lk_runs = 0

Goto(t, next) == lk_thread' = [lk_thread EXCEPT ![t].pc = next]

\* start_docking, lines 462-477, up to the with statement.
lk_start_docking ==
    /\ lk_thread[UIThread].pc = "idle"
    /\ ~lk_is_docking
    /\ lk_is_docking' = TRUE
    /\ Goto(UIThread, "ui_480")
    /\ UNCHANGED <<thread_lock, lk_last_write, lk_pending, lk_runs>>
    /\ UNCHANGED <<vars_mw, vars_fm, vars_cfg, vars_pm, vars_fn, vars_cc>>

\* lines 485-503: the docking thread is started; it picks batch or single by
\* the length of the ligand library.
lk_thread_start ==
    /\ lk_thread[UIThread].pc = "ui_502"
    /\ lk_runs < MaxLockRuns
    /\ \E n \in 1..MaxBatch :
          lk_thread' = [lk_thread EXCEPT
                           ![UIThread].pc = "idle",
                           ![lk_runs + 1] = [pc |-> IF n > 1 THEN "b_pre" ELSE "s_pre",
                                             i |-> 1, n |-> n]]
    /\ lk_runs' = lk_runs + 1
    /\ UNCHANGED <<thread_lock, lk_last_write, lk_is_docking, lk_pending>>
    /\ UNCHANGED <<vars_mw, vars_fm, vars_cfg, vars_pm, vars_fn, vars_cc>>

\* _on_docking_complete, _on_batch_docking_complete or _on_docking_error,
\* run by the UI thread between its other handlers.
lk_terminal_callback ==
    /\ lk_thread[UIThread].pc = "idle"
    /\ lk_pending > 0
    /\ lk_pending' = lk_pending - 1
    /\ lk_is_docking' = FALSE
    /\ UNCHANGED <<thread_lock, lk_thread, lk_last_write, lk_runs>>
    /\ UNCHANGED <<vars_mw, vars_fm, vars_cfg, vars_pm, vars_fn, vars_cc>>

\* A with statement is entered.
lk_acquire(t) ==
    /\ lk_thread[t].pc \in DOMAIN AcquireNext
    /\ Acquire(t)
    /\ Goto(t, AcquireNext[lk_thread[t].pc])
    /\ UNCHANGED <<lk_last_write, lk_is_docking, lk_pending, lk_runs>>
    /\ UNCHANGED <<vars_mw, vars_fm, vars_cfg, vars_pm, vars_fn, vars_cc>>

\* A guarded field is written; the write is noted with whether the writer
\* held the lock.
lk_write(t) ==
    /\ lk_thread[t].pc \in DOMAIN WriteSteps
    /\ LET step == WriteSteps[lk_thread[t].pc]
       IN  /\ lk_last_write' =
                  [field |-> step.field, by |-> t, held |-> t \in thread_lock]
           /\ Goto(t, step.next)
    /\ UNCHANGED <<thread_lock, lk_is_docking, lk_pending, lk_runs>>
    /\ UNCHANGED <<vars_mw, vars_fm, vars_cfg, vars_pm, vars_fn, vars_cc>>

\* A with statement is left.
lk_release(t) ==
    /\ lk_thread[t].pc \in DOMAIN ReleaseNext
    /\ Release(t)
    /\ Goto(t, ReleaseNext[lk_thread[t].pc])
    /\ UNCHANGED <<lk_last_write, lk_is_docking, lk_pending, lk_runs>>
    /\ UNCHANGED <<vars_mw, vars_fm, vars_cfg, vars_pm, vars_fn, vars_cc>>

\* _run_single_docking, lines 507-567: the run succeeds, is cancelled at a
\* checkpoint, or fails.
lk_single_run(w) ==
    /\ lk_thread[w].pc = "s_pre"
    /\ \E outcome \in {"s_568", "finally", "error"} : Goto(w, outcome)
    /\ UNCHANGED <<thread_lock, lk_last_write, lk_is_docking, lk_pending, lk_runs>>
    /\ UNCHANGED <<vars_mw, vars_fm, vars_cfg, vars_pm, vars_fn, vars_cc>>

\* _run_batch_docking, lines 585-596.
lk_batch_prepare(w) ==
    /\ lk_thread[w].pc = "b_pre"
    /\ \E outcome \in {"b_599", "finally", "error"} : Goto(w, outcome)
    /\ UNCHANGED <<thread_lock, lk_last_write, lk_is_docking, lk_pending, lk_runs>>
    /\ UNCHANGED <<vars_mw, vars_fm, vars_cfg, vars_pm, vars_fn, vars_cc>>

\* lines 606-643: the next ligand is prepared and docked, or the loop ends.
lk_batch_loop(w) ==
    /\ lk_thread[w].pc = "b_loop"
    /\ IF lk_thread[w].i > lk_thread[w].n
       THEN Goto(w, "b_667")
       ELSE \E outcome \in {"b_620", "b_646", "finally", "error"} : Goto(w, outcome)
    /\ UNCHANGED <<thread_lock, lk_last_write, lk_is_docking, lk_pending, lk_runs>>
    /\ UNCHANGED <<vars_mw, vars_fm, vars_cfg, vars_pm, vars_fn, vars_cc>>

\* lines 647-652: with scores the rows are appended, which may raise.
lk_batch_scores(w) ==
    /\ lk_thread[w].pc = "b_647"
    /\ \E outcome \in {"b_650", "b_654", "b_raised"} : Goto(w, outcome)
    /\ UNCHANGED <<thread_lock, lk_last_write, lk_is_docking, lk_pending, lk_runs>>
    /\ UNCHANGED <<vars_mw, vars_fm, vars_cfg, vars_pm, vars_fn, vars_cc>>

\* lines 627-628 and 661.
lk_batch_next(w) ==
    /\ lk_thread[w].pc = "b_next"
    /\ lk_thread' = [lk_thread EXCEPT ![w].pc = "b_loop", ![w].i = @ + 1]
    /\ UNCHANGED <<thread_lock, lk_last_write, lk_is_docking, lk_pending, lk_runs>>
    /\ UNCHANGED <<vars_mw, vars_fm, vars_cfg, vars_pm, vars_fn, vars_cc>>

\* lines 574, 580, 671 and 674: the terminal callback is scheduled.
lk_schedule(w) ==
    /\ lk_thread[w].pc \in {"s_574", "b_671", "b_674", "error"}
    /\ lk_pending' = lk_pending + 1
    /\ Goto(w, "finally")
    /\ UNCHANGED <<thread_lock, lk_last_write, lk_is_docking, lk_runs>>
    /\ UNCHANGED <<vars_mw, vars_fm, vars_cfg, vars_pm, vars_fn, vars_cc>>

\* docking_thread's finally block, lines 496-500.
lk_finally(w) ==
    /\ lk_thread[w].pc = "finally"
    /\ lk_is_docking' = FALSE
    /\ Goto(w, "done")
    /\ UNCHANGED <<thread_lock, lk_last_write, lk_pending, lk_runs>>
    /\ UNCHANGED <<vars_mw, vars_fm, vars_cfg, vars_pm, vars_fn, vars_cc>>

NextLock ==
    \/ lk_start_docking
    \/ lk_thread_start
    \/ lk_terminal_callback
    \/ \E t \in Threads : lk_acquire(t)
    \/ \E t \in Threads : lk_write(t)
    \/ \E t \in Threads : lk_release(t)
    \/ \E w \in LockWorkers : lk_single_run(w)
    \/ \E w \in LockWorkers : lk_batch_prepare(w)
    \/ \E w \in LockWorkers : lk_batch_loop(w)
    \/ \E w \in LockWorkers : lk_batch_scores(w)
    \/ \E w \in LockWorkers : lk_batch_next(w)
    \/ \E w \in LockWorkers : lk_schedule(w)
    \/ \E w \in LockWorkers : lk_finally(w)

\* =====================================================================
\*  FileManager: _validate_file and the file signatures
\* =====================================================================

\* Lines drawn after the filler lines of a file.
MaxTail == 2

\* A line is the sequence of its pieces of text; " " is a run of whitespace.
PdbStarts == {"ATOM", "HETATM", "HEADER", "TITLE", "COMPND", "REMARK"}

SdfMarks == {"V2000", "V3000"}

Mol2Start == "@<TRIPOS>"

HeaderTest == <<"HEADER", " ", "TEST">>

Garbage == <<"garbage">>

SignatureLines ==
    {<<>>, <<" ">>, Garbage, HeaderTest, <<" ", "ATOM">>, <<"x", "ATOM">>,
     <<"atom">>, <<"REMARK">>, <<"x", "V2000">>, <<"V3000", " ">>,
     <<Mol2Start, "MOLECULE">>, <<" ", Mol2Start>>, <<"x", Mol2Start>>}

\* Files begin with no, four or five lines of other text.
FillerCounts == {0, 4, 5}

FileLines ==
    {[i \in 1..n |-> Garbage] \o tail :
        n \in FillerCounts,
        tail \in UNION {[1..k -> SignatureLines] : k \in 0..MaxTail}}

Extensions == {".pdb", ".PDB", ".sdf", ".mol2", ".txt"}

\* What is at a path: nothing, a directory, or a file with its lines; a file
\* may be one that open() refuses.
FilesAtPath ==
    [kind : {"file"}, ext : Extensions, lines : FileLines, readable : BOOLEAN]
        \cup [kind : {"missing", "directory"}, ext : {".pdb"}, lines : {<<>>},
              readable : {TRUE}]

\* The lists that prepare_receptor and prepare_ligand pass, lines 24 and 77.
AllowedExtensions == {<<".pdb">>, <<".pdb", ".sdf", ".mol2">>}

\* str.lower of a suffix
Lower(ext) == IF ext = ".PDB" THEN ".pdb" ELSE ext

\* str.strip: the whitespace at both ends of the line goes.
RECURSIVE Strip(_)
Strip(line) ==
    IF line = <<>> THEN <<>>
    ELSE IF Head(line) = " " THEN Strip(Tail(line))
    ELSE IF line[Len(line)] = " " THEN Strip(SubSeq(line, 1, Len(line) - 1))
    ELSE line

\* line.startswith(prefixes)
StartsWith(line, prefixes) == line # <<>> /\ line[1] \in prefixes

\* mark in line
Contains(line, marks) == \E i \in DOMAIN line : line[i] \in marks

\* [f.readline().strip() for _ in range(5)], line 174: past the end of the
\* file readline gives the empty string.
FirstLines(lines) ==
    [i \in 1..5 |-> IF i <= Len(lines) THEN Strip(lines[i]) ELSE <<>>]

\* _validate_file_signature looking at the first line only.
SignatureFirstLineOnly(file, file_ext) ==
    IF ~file.readable THEN FALSE
    ELSE LET first_lines == FirstLines(file.lines)
             checked == {i \in 1..1 : first_lines[i] # <<>>}
         IN  IF file_ext = ".pdb"
             THEN \E i \in checked : StartsWith(first_lines[i], PdbStarts)
             ELSE IF file_ext = ".sdf"
             THEN \E i \in checked : Contains(first_lines[i], SdfMarks)
             ELSE IF file_ext = ".mol2"
             THEN \E i \in checked : StartsWith(first_lines[i], {Mol2Start})
             ELSE TRUE

\* _validate_file_signature, lines 170-193; an exception of open() gives
\* False.
ValidateFileSignature(file, file_ext) ==
    IF ~file.readable THEN FALSE
    ELSE LET first_lines == FirstLines(file.lines)
             checked == {i \in 1..5 : first_lines[i] # <<>>}
         IN  IF file_ext = ".pdb"
             THEN \E i \in checked : StartsWith(first_lines[i], PdbStarts)
             ELSE IF file_ext = ".sdf"
             THEN \E i \in checked : Contains(first_lines[i], SdfMarks)
             ELSE IF file_ext = ".mol2"
             THEN \E i \in checked : StartsWith(first_lines[i], {Mol2Start})
             ELSE TRUE

\* _validate_file, lines 142-168.  A file has size 0 when it has no line.
ValidateFile(file, allowed_extensions) ==
    IF file.kind = "missing" THEN FALSE
    ELSE IF file.kind # "file" THEN FALSE
    ELSE IF file.lines = <<>> THEN FALSE
    ELSE IF ~(\E i \in DOMAIN allowed_extensions :
                  allowed_extensions[i] = Lower(file.ext)) THEN FALSE
    ELSE ValidateFileSignature(file, Lower(file.ext))

validate_file ==
    /\ fn_op = "none"
    /\ \E file \in FilesAtPath, allowed_extensions \in AllowedExtensions :
        /\ fn_op' = "_validate_file"
        /\ fn_in' = [file |-> file, allowed_extensions |-> allowed_extensions]
        /\ fn_out' = ValidateFile(file, allowed_extensions)
        /\ UNCHANGED <<vars_mw, vars_fm, vars_cfg, vars_pm, vars_lk, vars_cc>>

NextValidate == validate_file

\* =====================================================================
\*  Box validation on the two ways to engine.run_docking
\* =====================================================================

\* What a docking call came to: whether the external program was started,
\* and how the call ended otherwise.
DockingCall(started, outcome) == [started |-> started, outcome |-> outcome]

\* MainWindow._run_single_docking, lines 548-560, and _run_batch_docking,
\* lines 637-643: the box is read from the entry fields (DoubleVar.get raises
\* for text that is not a number) and handed to engine.run_docking.
MainWindowRunDocking(center, size) ==
    IF \E i \in 1..3 : center[i].kind # "number" \/ size[i].kind # "number"
    THEN DockingCall(FALSE, "TclError")
    ELSE DockingCall(TRUE, "run_docking")

\* DockingManager.run_docking, lines 67-84.
ManagerRunDocking(center, size) ==
    LET valid == validate_parameters(center, size)
    IN  IF valid = "TypeError" THEN DockingCall(FALSE, "TypeError")
        ELSE IF valid = "False" THEN DockingCall(FALSE, "Invalid docking parameters")
        ELSE DockingCall(TRUE, "run_docking")

main_window_run_docking ==
    /\ fn_op = "none"
    /\ \E center \in [1..3 -> CenterValues], size \in [1..3 -> SizeValues],
          mode \in {"single", "batch"} :
        /\ fn_op' = "MainWindow.run_docking"
        /\ fn_in' = [center |-> center, size |-> size, mode |-> mode]
        /\ fn_out' = MainWindowRunDocking(center, size)
        /\ UNCHANGED <<vars_mw, vars_fm, vars_cfg, vars_pm, vars_lk, vars_cc>>

manager_run_docking ==
    /\ fn_op = "none"
    /\ \E center \in [1..3 -> CenterValues], size \in [1..3 -> SizeValues] :
        /\ fn_op' = "DockingManager.run_docking"
        /\ fn_in' = [center |-> center, size |-> size, mode |-> "manager"]
        /\ fn_out' = ManagerRunDocking(center, size)
        /\ UNCHANGED <<vars_mw, vars_fm, vars_cfg, vars_pm, vars_lk, vars_cc>>

NextDocking ==
    \/ main_window_run_docking
    \/ manager_run_docking

\* =====================================================================
\*  MainWindow: structure fetches and the coordinate calculation
\* =====================================================================

\* Fetch threads that may be launched, files the user may pick in a dialog,
\* and the structure files there are.
MaxFetches == 2
MaxSelects == 1
MaxStructures == 2

FetchThreads == 1..MaxFetches

\* A structure file; 0 is the empty receptor path or ligand library.
Structures == 1..MaxStructures

IdleFetch == [pc |-> "idle", kind |-> "none"]

IdleCalculation == [pc |-> "idle", source |-> 0]

WidgetUpdate(widget, by) == [widget |-> widget, by |-> by]

InitCalc ==
    /\ mw_receptor_path = 0
    /\ mw_first_ligand = 0
    /\ docking_mode \in {"Blind Docking", "Targeted Docking"}
    /\ is_calculating = FALSE
    /\ calculate_thread = IdleCalculation
    /\ fetch_threads = [t \in FetchThreads |-> IdleFetch]
    /\ tk_after = <<>>
    /\ box_source = 0
    /\ widget_update = WidgetUpdate("none", "ui")
    /\ calc_ok = TRUE
    /\ selections = 0

\* update_status, lines 728-733, run by the thread that calls it.
UpdateStatus(by) == widget_update' = WidgetUpdate("status_label", by)

\* _start_coordinate_calculation, lines 412-445, run by the UI thread after
\* a status update of the caller.
StartCoordinateCalculation ==
    IF is_calculating
    THEN /\ UpdateStatus("ui")
         /\ UNCHANGED <<is_calculating, calculate_thread, calc_ok>>
    ELSE /\ is_calculating' = TRUE
         /\ calculate_thread' = [pc |-> "read", source |-> 0]
         /\ calc_ok' = TRUE
         /\ UpdateStatus("ui")

\* select_receptor_file, lines 308-318, with a file chosen.
select_receptor_file ==
    /\ selections < MaxSelects
    /\ selections' = selections + 1
    /\ \E s \in Structures : mw_receptor_path' = s
    /\ StartCoordinateCalculation
    /\ UNCHANGED <<mw_first_ligand, docking_mode, fetch_threads, tk_after, box_source>>
    /\ UNCHANGED <<vars_mw, vars_fm, vars_cfg, vars_pm, vars_fn, vars_lk>>

\* select_ligand_file, lines 320-336, with a file chosen.
select_ligand_file ==
    /\ selections < MaxSelects
    /\ selections' = selections + 1
    /\ \E s \in Structures : mw_first_ligand' = s
    /\ StartCoordinateCalculation
    /\ UNCHANGED <<mw_receptor_path, docking_mode, fetch_threads, tk_after, box_source>>
    /\ UNCHANGED <<vars_mw, vars_fm, vars_cfg, vars_pm, vars_fn, vars_lk>>

\* fetch_pdb_structure, lines 358-374, and fetch_pubchem_ligand, lines
\* 382-398, on the UI thread: with a usable identifier the fetch thread is
\* started.
start_fetch(kind) ==
    \E t \in FetchThreads :
        /\ fetch_threads[t].pc = "idle"
        /\ \A u \in 1..(t - 1) : fetch_threads[u].pc # "idle"
        /\ fetch_threads' = [fetch_threads EXCEPT ![t] = [pc |-> "status", kind |-> kind]]
        /\ UNCHANGED <<mw_receptor_path, mw_first_ligand, docking_mode, is_calculating,
                       calculate_thread, tk_after, box_source, widget_update, calc_ok,
                       selections>>
        /\ UNCHANGED <<vars_mw, vars_fm, vars_cfg, vars_pm, vars_fn, vars_lk>>

\* fetch_thread, lines 368 and 392: the status line is updated by the fetch
\* thread itself.
fetch_thread_status(t) ==
    /\ fetch_threads[t].pc = "status"
    /\ UpdateStatus("worker")
    /\ fetch_threads' = [fetch_threads EXCEPT ![t].pc = "fetch"]
    /\ UNCHANGED <<mw_receptor_path, mw_first_ligand, docking_mode, is_calculating,
                   calculate_thread, tk_after, box_source, calc_ok, selections>>
    /\ UNCHANGED <<vars_mw, vars_fm, vars_cfg, vars_pm, vars_fn, vars_lk>>

\* fetch_thread, lines 369-372 and 393-396: the download returns a file or
\* raises, and the callback is handed to root.after.
fetch_thread_download(t) ==
    /\ fetch_threads[t].pc = "fetch"
    /\ \/ \E s \in Structures :
             tk_after' = Append(tk_after, [kind |-> fetch_threads[t].kind, file |-> s])
       \/ tk_after' = Append(tk_after, [kind |-> "fetch_error", file |-> 0])
    /\ fetch_threads' = [fetch_threads EXCEPT ![t].pc = "done"]
    /\ UNCHANGED <<mw_receptor_path, mw_first_ligand, docking_mode, is_calculating,
                   calculate_thread, box_source, widget_update, calc_ok, selections>>
    /\ UNCHANGED <<vars_mw, vars_fm, vars_cfg, vars_pm, vars_fn, vars_lk>>

\* calculate_thread, lines 421-437: the receptor path, the docking mode and
\* the ligand library are read and the file to take coordinates from is
\* chosen, or the thread goes to its finally block.
calculate_thread_read ==
    /\ calculate_thread.pc = "read"
    /\ calculate_thread' =
          IF mw_receptor_path = 0 THEN [pc |-> "finally", source |-> 0]
          ELSE IF docking_mode = "Blind Docking"
               THEN [pc |-> "coords", source |-> mw_receptor_path]
          ELSE IF mw_first_ligand # 0
               THEN [pc |-> "coords", source |-> mw_first_ligand]
          ELSE [pc |-> "finally", source |-> 0]
    /\ UNCHANGED <<mw_receptor_path, mw_first_ligand, docking_mode, is_calculating,
                   fetch_threads, tk_after, box_source, widget_update, calc_ok,
                   selections>>
    /\ UNCHANGED <<vars_mw, vars_fm, vars_cfg, vars_pm, vars_fn, vars_lk>>

\* calculate_thread, lines 427-440: coordinates are found and the box is
\* handed to root.after, no coordinates are found, or a step raises.
calculate_thread_coords ==
    /\ calculate_thread.pc = "coords"
    /\ \/ /\ tk_after' = Append(tk_after, [kind |-> "coordinates",
                                           file |-> calculate_thread.source])
          /\ UNCHANGED calc_ok
       \/ /\ calc_ok' = FALSE
          /\ UNCHANGED tk_after
       \/ /\ tk_after' = Append(tk_after, [kind |-> "calculation_error", file |-> 0])
          /\ calc_ok' = FALSE
    /\ calculate_thread' = [calculate_thread EXCEPT !.pc = "finally"]
    /\ UNCHANGED <<mw_receptor_path, mw_first_ligand, docking_mode, is_calculating,
                   fetch_threads, box_source, widget_update, selections>>
    /\ UNCHANGED <<vars_mw, vars_fm, vars_cfg, vars_pm, vars_fn, vars_lk>>

\* A finally block that leaves is_calculating as it is.
FinallyKeepsFlag == UNCHANGED is_calculating

\* calculate_thread's finally block, lines 441-442.
CalculateFinally == is_calculating' = FALSE

calculate_thread_finally ==
    /\ calculate_thread.pc = "finally"
    /\ CalculateFinally
    /\ calculate_thread' = [calculate_thread EXCEPT !.pc = "idle"]
    /\ UNCHANGED <<mw_receptor_path, mw_first_ligand, docking_mode, fetch_threads,
                   tk_after, box_source, widget_update, calc_ok, selections>>
    /\ UNCHANGED <<vars_mw, vars_fm, vars_cfg, vars_pm, vars_fn, vars_lk>>

\* The UI thread runs the oldest callback handed to root.after:
\* _on_pdb_fetched (376-380), _on_pubchem_fetched (400-405), _on_fetch_error
\* (407-410), _on_coordinates_calculated (447-455) or _on_calculation_error
\* (457-460).
tk_run_callback ==
    /\ tk_after # <<>>
    /\ tk_after' = Tail(tk_after)
    /\ LET cb == Head(tk_after)
       IN  CASE cb.kind = "pdb" ->
                  /\ mw_receptor_path' = cb.file
                  /\ StartCoordinateCalculation
                  /\ UNCHANGED <<mw_first_ligand, box_source>>
             [] cb.kind = "pubchem" ->
                  /\ mw_first_ligand' = cb.file
                  /\ StartCoordinateCalculation
                  /\ UNCHANGED <<mw_receptor_path, box_source>>
             [] cb.kind = "coordinates" ->
                  /\ box_source' = cb.file
                  /\ UpdateStatus("ui")
                  /\ UNCHANGED <<mw_receptor_path, mw_first_ligand, is_calculating,
                                 calculate_thread, calc_ok>>
             [] OTHER ->
                  /\ UpdateStatus("ui")
                  /\ UNCHANGED <<mw_receptor_path, mw_first_ligand, is_calculating,
                                 calculate_thread, calc_ok, box_source>>
    /\ UNCHANGED <<docking_mode, fetch_threads, selections>>
    /\ UNCHANGED <<vars_mw, vars_fm, vars_cfg, vars_pm, vars_fn, vars_lk>>

CalculationSteps ==
    \/ calculate_thread_read
    \/ calculate_thread_coords
    \/ calculate_thread_finally

NextCalc ==
    \/ select_receptor_file
    \/ select_ligand_file
    \/ start_fetch("pdb")
    \/ start_fetch("pubchem")
    \/ \E t \in FetchThreads : fetch_thread_status(t)
    \/ \E t \in FetchThreads : fetch_thread_download(t)
    \/ CalculationSteps
    \/ tk_run_callback

\* The other components at rest.
IdleMW ==
    /\ ligand_library = <<>>
    /\ is_docking = FALSE
    /\ cancel_docking = FALSE
    /\ cancel_button = FALSE
    /\ status = "Ready"
    /\ dialog = "none"
    /\ last_results = <<>>
    /\ batch_results_summary = <<>>
    /\ full_batch_results = <<>>
    /\ last_run_type = "None"
    /\ single_docking_output_path = 0
    /\ receptor_pdbqt_path = 0
    /\ after_queue = <<>>
    /\ worker = [w \in Runs |-> IdleWorker]
    /\ nruns = 0

IdleCfg ==
    /\ config = DefaultConfig
    /\ fs_config = DefaultConfig
    /\ fs_backup = 0
    /\ fs_tmp = 0
    /\ save_pc = "idle"
    /\ save_pre = 0
    /\ save_ret = "none"
    /\ save_caller = "none"

IdlePM == InitPM

IdleFn ==
    /\ fn_op = "none"
    /\ fn_in = <<>>
    /\ fn_out = <<>>

IdleLock == InitLock

IdleCalc ==
    /\ InitCalc
    /\ docking_mode = "Blind Docking"

\* =====================================================================
\*  Specifications
\* =====================================================================

Init == InitMW /\ InitFM /\ IdleCfg /\ IdlePM /\ IdleFn /\ IdleLock /\ IdleCalc

Next == NextMW

Spec == Init /\ [][Next]_vars

InitTemp == IdleMW /\ InitFM /\ IdleCfg /\ IdlePM /\ IdleFn /\ IdleLock /\ IdleCalc

NextTemp == NextFM

SpecTemp == InitTemp /\ [][NextTemp]_vars

InitSave == IdleMW /\ InitFM /\ InitCfg /\ IdlePM /\ IdleFn /\ IdleLock /\ IdleCalc

NextSave == NextCfg

SpecSave == InitSave /\ [][NextSave]_vars

InitProject == IdleMW /\ InitFM /\ IdleCfg /\ InitPM /\ IdleFn /\ IdleLock /\ IdleCalc

NextProject == NextPM

SpecProject == InitProject /\ [][NextProject]_vars

InitConfig == IdleMW /\ InitFM /\ IdleCfg /\ IdlePM /\ IdleFn /\ IdleLock /\ IdleCalc

SpecConfig == InitConfig /\ [][NextConfig]_vars

InitEngine == IdleMW /\ InitFM /\ IdleCfg /\ IdlePM /\ IdleFn /\ IdleLock /\ IdleCalc

SpecEngine == InitEngine /\ [][NextEngine]_vars

InitDocking == IdleMW /\ InitFM /\ IdleCfg /\ IdlePM /\ IdleFn /\ IdleLock /\ IdleCalc

SpecDocking == InitDocking /\ [][NextDocking]_vars

InitCoordinates == IdleMW /\ InitFM /\ IdleCfg /\ IdlePM /\ IdleFn /\ IdleLock /\ InitCalc

SpecCalc == InitCoordinates /\ [][NextCalc]_vars

\* One docking run and one coordinate calculation are followed from their
\* start to their end: the last docking thread and the last file selection
\* the bounds allow.
InitTermination ==
    /\ IdleMW /\ InitFM /\ IdleCfg /\ IdlePM /\ IdleFn
    /\ thread_lock = {}
    /\ lk_thread = [t \in Threads |-> IdleThread]
    /\ lk_last_write = [field |-> "none", by |-> UIThread, held |-> TRUE]
    /\ lk_is_docking = FALSE
    /\ lk_pending = 0
    /\ lk_runs = MaxLockRuns - 1
    /\ mw_receptor_path \in {0} \cup Structures
    /\ mw_first_ligand = 0
    /\ docking_mode \in {"Blind Docking", "Targeted Docking"}
    /\ is_calculating = FALSE
    /\ calculate_thread = IdleCalculation
    /\ fetch_threads = [t \in FetchThreads |-> IdleFetch]
    /\ tk_after = <<>>
    /\ box_source = 0
    /\ widget_update = WidgetUpdate("none", "ui")
    /\ calc_ok = TRUE
    /\ selections = MaxSelects - 1

\* The steps of docking thread w.
DockingThreadSteps(w) ==
    \/ lk_acquire(w)
    \/ lk_write(w)
    \/ lk_release(w)
    \/ lk_single_run(w)
    \/ lk_batch_prepare(w)
    \/ lk_batch_loop(w)
    \/ lk_batch_scores(w)
    \/ lk_batch_next(w)
    \/ lk_schedule(w)
    \/ lk_finally(w)

\* The UI thread inside start_docking, lines 480-503.
StartDockingSteps ==
    \/ lk_acquire(UIThread)
    \/ lk_write(UIThread)
    \/ lk_release(UIThread)
    \/ lk_thread_start

NextTermination ==
    \/ (lk_runs < MaxLockRuns /\ lk_start_docking)
    \/ StartDockingSteps
    \/ lk_terminal_callback
    \/ \E w \in LockWorkers : DockingThreadSteps(w)
    \/ select_receptor_file
    \/ select_ligand_file
    \/ CalculationSteps
    \/ tk_run_callback

\* Every started thread is scheduled again and again and each external
\* step returns; the UI thread, once inside start_docking, runs it to its
\* end.
TerminationFairness ==
    /\ \A w \in LockWorkers : WF_vars(DockingThreadSteps(w))
    /\ WF_vars(StartDockingSteps)
    /\ WF_vars(CalculationSteps)

SpecTermination == InitTermination /\ [][NextTermination]_vars /\ TerminationFairness

SpecBatchTemp == InitTemp /\ [][NextBatchTemp]_vars

SpecTempThreads == InitTemp /\ [][NextTempThreads]_vars

SpecWizard == InitConfig /\ [][NextWizard]_vars

InitValidate == IdleMW /\ InitFM /\ IdleCfg /\ IdlePM /\ IdleFn /\ IdleLock /\ IdleCalc

SpecValidate == InitValidate /\ [][NextValidate]_vars

InitLocking == IdleMW /\ InitFM /\ IdleCfg /\ IdlePM /\ IdleFn /\ InitLock /\ IdleCalc

SpecLock == InitLocking /\ [][NextLock]_vars

\* =====================================================================
\*  Properties
\* =====================================================================

BatchMode == Len(ligand_library) > 1

\* Run w is the latest one and its thread has ended: the result buffers hold
\* what that run left.
Ended(w) == w = nruns /\ worker[w].pc = "done"

ErrorPlaceholders == {"PREPARATION_ERROR", "DOCKING_ERROR"}

\* C1: batch docking, receptor prepared and no cancellation requested: when
\* the run has ended, batch_results_summary holds exactly one entry per
\* ligand, in library order, every ligand whose preparation failed is marked
\* PREPARATION_ERROR, and if at least one ligand produced scores the run was
\* reported through the batch-completion callback.
C1_BatchSummaryPerLigand ==
    \A w \in Runs :
        (/\ BatchMode
         /\ Ended(w)
         /\ worker[w].receptor_pdbqt # 0
         /\ worker[w].cancel_at = "none")
        => /\ Len(batch_results_summary) = Len(ligand_library)
           /\ \A k \in 1..Len(ligand_library) :
                 batch_results_summary[k].Ligand = ligand_library[k]
           /\ \A k \in worker[w].prep_failed :
                 batch_results_summary[k].Best = "PREPARATION_ERROR"
           /\ (worker[w].produced # {} => worker[w].term = "batch_complete")

\* C2: single-run docking: when cancellation was requested after the run
\* started and before the ligand-preparation step began, then once the thread
\* has ended and every scheduled callback has run, the run was reported as
\* 'Docking cancelled' (by the thread, or on the status line), the completion
\* callback was not scheduled, and last_results is empty.
C2_CancelBeforeLigandPrep ==
    \A w \in Runs :
        (/\ ~BatchMode
         /\ Ended(w)
         /\ after_queue = <<>>
         /\ worker[w].cancel_at \in {"s_check1", "s_receptor", "s_check2"})
        => /\ (worker[w].term = "cancelled" \/ status = "Docking cancelled")
           /\ worker[w].term # "complete"
           /\ last_results = <<>>

\* C3: at most one docking thread exists at any time.
C3_AtMostOneDockingWorker ==
    Cardinality({w \in Runs : Running(w)}) <= 1

\* C4: when cancellation was requested while a docking call was in flight
\* (single run or any ligand of a batch) and the docking calls returned, the
\* run ends as 'Docking cancelled', not as completed.
C4_CancelDuringDocking ==
    \A w \in Runs :
        (/\ Ended(w)
         /\ worker[w].cancel_at \in {"s_docking", "b_docking"}
         /\ worker[w].dock_raised = {})
        => worker[w].term = "cancelled"

\* C5: batch docking without cancellation: every ligand whose docking run
\* failed (the program exited non-zero, left no output file, or gave no scores)
\* has the DOCKING_ERROR placeholder in batch_results_summary, and the batch
\* went on to the last ligand.
C5_DockingFailureDoesNotAbort ==
    \A w \in Runs :
        (/\ BatchMode
         /\ Ended(w)
         /\ worker[w].cancel_at = "none")
        => \A k \in worker[w].dock_failed :
              /\ Len(batch_results_summary) = Len(ligand_library)
              /\ batch_results_summary[k].Best = "DOCKING_ERROR"

\* C6: batch docking without cancellation: when every ligand of the batch
\* ended as PREPARATION_ERROR or DOCKING_ERROR, the batch is reported through
\* the error handler and the batch-completion callback is not scheduled.
C6_AllFailedBatchReportsError ==
    \A w \in Runs :
        (/\ BatchMode
         /\ Ended(w)
         /\ worker[w].cancel_at = "none"
         /\ Len(batch_results_summary) = Len(ligand_library)
         /\ \A k \in 1..Len(batch_results_summary) :
               batch_results_summary[k].Best \in ErrorPlaceholders)
        => worker[w].term = "error"

\* C7: single-run docking: once the docking call has returned with the output
\* file absent or with an empty score list, the engine's result has
\* success = False and the run is never reported through the completion
\* callback.
C7_EmptyResultIsFailure ==
    \A w \in Runs :
        (/\ ~BatchMode
         /\ w = nruns
         /\ worker[w].pc \in {"s_check4", "s_record", "finally", "done"}
         /\ 1 \in worker[w].dock_failed
         /\ 1 \notin worker[w].dock_raised)
        => /\ worker[w].result.success = FALSE
           /\ worker[w].term # "complete"

\* C8: sequential create_temp_directory calls: a cleanup pass runs exactly
\* when max_temp_dirs directories were tracked when the call began, n calls
\* have run floor((n-1)/max_temp_dirs) passes, right after a pass the registry
\* and the disk hold only the new directory, and the tracked count never
\* exceeds max_temp_dirs.
C8_TempDirectoryCap ==
    /\ cleanup_passes = (IF calls = 0 THEN 0 ELSE (calls - 1) \div max_temp_dirs)
    /\ Len(temp_dirs) <= max_temp_dirs
    /\ (calls > 0 => (last_call_cleaned <=> tracked_before = max_temp_dirs))
    /\ (last_call_cleaned => temp_dirs = <<calls>> /\ disk_dirs = {calls})

\* The 51st call has just run the first cleanup pass.
C8_Witness ==
    /\ calls = max_temp_dirs + 1
    /\ cleanup_passes = 1
    /\ last_call_cleaned
    /\ tracked_before = max_temp_dirs
    /\ Len(temp_dirs) = 1

\* C9: at every point inside save_config the configuration path holds the
\* complete content it had when the save began or the complete new content.
C9_SaveIsAtomic ==
    save_pc \in InSave => fs_config \in {save_pre, config}

\* C10: when save_config has returned False the configuration file holds the
\* content it had before the call; when it has returned True the file holds
\* the new content and neither .backup nor .tmp is on disk.
C10_SaveOutcome ==
    /\ save_ret = "False" => fs_config = save_pre
    /\ save_ret = "True" => (fs_config = config /\ fs_backup = 0 /\ fs_tmp = 0)


\* C11: after create_new_project, add_receptor / add_ligands calls that copy
\* their files into the project and return, and save_project, a load_project
\* of the saved manifest holds the receptor and ligand names that were in
\* memory when save_project returned, in the same order, and every path of
\* the loaded manifest is absolute and names a file that exists.
C11_ProjectRoundTrip ==
    pm_phase = "loaded" =>
        /\ Names(project_data.receptors) = Names(pm_saved.receptors)
        /\ Names(project_data.ligands) = Names(pm_saved.ligands)
        /\ \A e \in AllEntries(project_data) :
               IsAbs(e.path) /\ Exists(project_files, e.path)

\* C12: whenever a ProjectManager call has returned or raised, every path of
\* the manifest in memory is absolute, and every path of the project.json
\* last written is relative and leads from the project folder to the file
\* the entry was made for.
C12_PathInvariant ==
    /\ \A p \in AllPaths(project_data) : IsAbs(p)
    /\ project_json.state = "ok" =>
           \A e \in AllEntries(project_json.data) :
               ~IsAbs(e.path) /\ Normalize(ProjectFolder \o e.path) = e.file

\* The merge of two dictionaries whose values are not dictionaries.
MergedLeaves(base, update, result) ==
    /\ DOMAIN result = DOMAIN base \cup DOMAIN update
    /\ \A key \in DOMAIN result :
           result[key] = IF key \in DOMAIN update THEN update[key] ELSE base[key]

\* C13: in the result of _deep_merge(base, update) a key of the update alone
\* has the update's value, a key of the base alone has the base's value, a
\* key of both whose two values are dictionaries has their merge, and any
\* other key of both has the update's value as it is (lists included).
C13_DeepMerge ==
    fn_op = "_deep_merge" =>
        LET base == fn_in.base
            update == fn_in.update
            result == fn_out
        IN  /\ DOMAIN result = DOMAIN base \cup DOMAIN update
            /\ \A key \in DOMAIN update \ DOMAIN base : result[key] = update[key]
            /\ \A key \in DOMAIN base \ DOMAIN update : result[key] = base[key]
            /\ \A key \in DOMAIN base \cap DOMAIN update :
                   IF IsMap(base[key]) /\ IsMap(update[key])
                   THEN /\ IsMap(result[key])
                        /\ MergedLeaves(base[key].val, update[key].val,
                                        result[key].val)
                   ELSE result[key] = update[key]

\* A merge in which one key holds dictionaries on both sides, each with a
\* key the other lacks, and another key holds lists on both sides.
C13_Witness ==
    /\ fn_op = "_deep_merge"
    /\ \E key \in DOMAIN fn_in.base \cap DOMAIN fn_in.update :
           /\ IsMap(fn_in.base[key]) /\ IsMap(fn_in.update[key])
           /\ DOMAIN fn_in.base[key].val \ DOMAIN fn_in.update[key].val # {}
           /\ DOMAIN fn_in.update[key].val \ DOMAIN fn_in.base[key].val # {}
           /\ DOMAIN fn_out[key].val = MergeKeys
    /\ \E key \in DOMAIN fn_in.base \cap DOMAIN fn_in.update :
           /\ fn_in.base[key].kind = "list" /\ fn_in.update[key].kind = "list"
           /\ fn_out[key] = fn_in.update[key]

\* The file sets this key of this category.
Specifies(file, category, key) ==
    /\ file.state = "json"
    /\ IsMap(file.json)
    /\ category \in DOMAIN file.json.val
    /\ IsMap(file.json.val[category])
    /\ key \in DOMAIN file.json.val[category].val

\* The file sets this program's path for this platform.
SpecifiesPlatform(file, platform_key, program) ==
    /\ Specifies(file, "platform_settings", platform_key)
    /\ IsMap(file.json.val.platform_settings.val[platform_key])
    /\ program \in DOMAIN file.json.val.platform_settings.val[platform_key].val

\* C14: after load_config, whatever the file was, every key of the defaults
\* that the file does not set is answered by its getter with the default
\* value: the five category getters, and get_executable_path for a program
\* the file sets neither in the platform's map nor in the generic map.
C14_UnspecifiedKeysResolve ==
    fn_op = "load_config" =>
        LET file == fn_in.file
            platform_key == IF fn_in.platform = "win32" THEN "windows"
                            ELSE fn_in.platform
        IN  /\ \A category \in SettingCategories :
                   \A key \in DOMAIN default_config[category].val :
                       ~Specifies(file, category, key) =>
                           GetSetting(fn_out, category, key, Scalar("None"))
                               = default_config[category].val[key]
            /\ \A program \in Programs :
                   (/\ ~Specifies(file, "executables", program)
                    /\ ~SpecifiesPlatform(file, platform_key, program)) =>
                       get_executable_path(fn_out, fn_in.platform, program)
                           = default_config.platform_settings.val[platform_key].val[program]

\* C15: get_executable_path returns the entry of the current platform's map
\* (win32 read as 'windows') when the program is in it, otherwise the entry
\* of the generic executables map when the program is in it, otherwise the
\* bare program name.
C15_ExecutablePath ==
    fn_op = "get_executable_path" =>
        LET cfg == fn_in.config
            program == fn_in.program
            platform_key == IF fn_in.platform = "win32" THEN "windows"
                            ELSE fn_in.platform
            overrides == cfg.platform_settings.val
        IN  IF platform_key \in DOMAIN overrides
               /\ program \in DOMAIN overrides[platform_key].val
            THEN fn_out = overrides[platform_key].val[program]
            ELSE IF program \in DOMAIN cfg.executables.val
                 THEN fn_out = cfg.executables.val[program]
                 ELSE fn_out = Scalar(program)

\* On win32, with the program in the 'windows' map, in a 'win32' map and in
\* the generic map, the 'windows' entry is returned.
C15_Witness ==
    /\ fn_op = "get_executable_path"
    /\ fn_in.platform = "win32"
    /\ fn_in.program = "vina"
    /\ {"windows", "win32"} \subseteq DOMAIN fn_in.config.platform_settings.val
    /\ "vina" \in DOMAIN fn_in.config.platform_settings.val["windows"].val
    /\ "vina" \in DOMAIN fn_in.config.platform_settings.val["win32"].val
    /\ "vina" \in DOMAIN fn_in.config.executables.val
    /\ fn_out = PathOf("windows", "vina")

\* Thresholds and values as the engine reads them: the configured list, or
\* the default of the call when the key is not set.
ThresholdsRead == IF fn_in.thresholds = <<>> THEN <<7, 12>> ELSE fn_in.thresholds

ValuesRead == IF fn_in.values = <<>> THEN <<8, 16, 32>> ELSE fn_in.values

\* C16: with thresholds [t0, t1] and values [v0, v1, v2],
\* get_adaptive_exhaustiveness returns v0 for a rotatable-bond count <= t0,
\* v1 for a count > t0 and <= t1, and v2 otherwise; with [7, 12] and
\* [8, 16, 32] the counts 0, 7, 8, 12, 13, 100 give 8, 8, 16, 16, 32, 32.
C16_AdaptiveExhaustiveness ==
    fn_op = "get_adaptive_exhaustiveness" =>
        LET t == ThresholdsRead
            v == ValuesRead
            n == fn_in.rot_bonds
        IN  /\ n <= t[1] => fn_out = v[1]
            /\ n > t[1] /\ n <= t[2] => fn_out = v[2]
            /\ n > t[1] /\ n > t[2] => fn_out = v[3]
            /\ t = <<7, 12>> /\ v = <<8, 16, 32>> =>
                   /\ n \in {0, 7} => fn_out = 8
                   /\ n \in {8, 12} => fn_out = 16
                   /\ n \in {13, 100} => fn_out = 32

C16_Witness ==
    /\ fn_op = "get_adaptive_exhaustiveness"
    /\ fn_in.thresholds = <<7, 12>>
    /\ fn_in.values = <<8, 16, 32>>
    /\ fn_in.rot_bonds = 12
    /\ fn_out = 16

\* The fields of a line: its maximal runs of characters that are not
\* whitespace.
RECURSIVE Tokens(_)
Tokens(line) ==
    LET start == RunEnd(line, 1, Whitespace)
        stop == CHOOSE j \in start..(Len(line) + 1) :
                    /\ j > Len(line) \/ line[j] \in Whitespace
                    /\ \A k \in start..(j - 1) : line[k] \notin Whitespace
    IN  IF start > Len(line) THEN <<>>
        ELSE <<SubSeq(line, start, stop - 1)>>
                 \o Tokens(SubSeq(line, stop, Len(line)))

\* A line that starts, after optional whitespace, with an integer mode
\* followed by three whitespace-separated numbers.
IsScoreLine(line) ==
    LET fields == Tokens(line)
    IN  /\ Len(fields) >= 4
        /\ \A i \in DOMAIN fields[1] : fields[1][i] \in Digits
        /\ \A f \in 2..4 : /\ \A i \in DOMAIN fields[f] : fields[f][i] \in FieldChars
                            /\ IsFloat(fields[f])

\* One record for each score line, in the order of the lines.
ScoreRecords(lines) ==
    LET rows == SelectSeq(lines, IsScoreLine)
    IN  [i \in DOMAIN rows |-> Score(SubSeq(Tokens(rows[i]), 1, 4))]

\* C17: parse_output yields exactly one record for each line that starts,
\* after optional whitespace, with an integer mode and three numeric fields,
\* none for any other line, in the order of the lines and with the line's
\* mode, affinity and RMSD bounds; the two-row table yields modes 1, 2 with
\* affinities -7.2, -6.8 and RMSD bounds (0.0, 0.0), (1.3, 2.1).
C17_ParseOutput ==
    fn_op = "parse_output" =>
        /\ fn_out.kind = "scores"
        /\ fn_out.scores = ScoreRecords(fn_in.output)

\* C19: validate_parameters returns True exactly when the three center
\* values are numbers and the three sizes are positive and within 1.0 to
\* 200.0 inclusive; sizes (0.5, 20, 20) and (250, 20, 20) are rejected,
\* (20, 20, 20) is accepted, a center value that is not a number gives False.
C19_ValidateParameters ==
    fn_op = "validate_parameters" =>
        LET center == fn_in.center
            size == fn_in.size
            numeric_center == \A i \in 1..3 : center[i].kind = "number"
        IN  /\ fn_out = "True" <=>
                   /\ numeric_center
                   /\ \A i \in 1..3 : /\ size[i].kind = "number"
                                      /\ size[i].val > 0
                                      /\ size[i].val >= 10
                                      /\ size[i].val <= 2000
            /\ ~numeric_center => fn_out = "False"
            /\ numeric_center =>
                   /\ size = <<Number(5), Number(200), Number(200)>> => fn_out = "False"
                   /\ size = <<Number(2500), Number(200), Number(200)>> => fn_out = "False"
                   /\ size = <<Number(200), Number(200), Number(200)>> => fn_out = "True"

C19_Witness ==
    /\ fn_op = "validate_parameters"
    /\ fn_in.center = <<Number(0), Number(-125), Number(0)>>
    /\ fn_in.size = <<Number(10), Number(2000), Number(200)>>
    /\ fn_out = "True"

\* C20: every write to last_results, batch_results_summary,
\* full_batch_results, receptor_pdbqt_path and single_docking_output_path, by
\* the UI thread or by a docking thread, is made while the writer holds
\* thread_lock; at most one thread holds the lock; and a thread that has left
\* a guarded statement, by whatever path, no longer holds it.
C20_LockDiscipline ==
    /\ lk_last_write.field \in GuardedFields => lk_last_write.held
    /\ Cardinality(thread_lock) <= 1
    /\ \A t \in Threads : t \in thread_lock => InBlock(lk_thread[t].pc)

C20_Witness ==
    \E w \in LockWorkers :
        /\ thread_lock = {w}
        /\ lk_thread[w].pc = "b_exit646"
        /\ lk_thread[UIThread].pc = "ui_480"
        /\ lk_last_write = [field |-> "batch_results_summary", by |-> w, held |-> TRUE]
        /\ \E v \in LockWorkers : lk_thread[v].pc = "done"

\* The file validated is an existing non-empty file with an allowed extension.
C18_Case ==
    /\ fn_op = "_validate_file"
    /\ fn_in.file.kind = "file"
    /\ fn_in.file.lines # <<>>
    /\ \E i \in DOMAIN fn_in.allowed_extensions :
           fn_in.allowed_extensions[i] = Lower(fn_in.file.ext)

\* The lines of the file among its first five, as they stand in the file.
C18_RawLines ==
    {fn_in.file.lines[i] : i \in {j \in 1..5 : j <= Len(fn_in.file.lines)}}

\* The same lines with the whitespace at their ends removed.
C18_StrippedLines == {Strip(line) : line \in C18_RawLines}

C23_CancelIsNotFailure ==
    (/\ nruns = 1
     /\ worker[1].cancel_at \notin {"none", "finally"})
    => /\ status # "Docking failed"
       /\ dialog # "Docking failed"

\* No docking thread is alive and is_docking is clear.
NoRunInProgress == ~is_docking /\ \A w \in Runs : ~Running(w)

\* C26: whenever no docking run is in progress, last_run_type,
\* single_docking_output_path and receptor_pdbqt_path describe the run whose
\* results the buffers hold, the latest one; in particular, after a failed
\* or cancelled run, visualize_results has no output file of an earlier run
\* to present while last_results is empty.
C26_ResultStateConsistent ==
    (NoRunInProgress /\ nruns >= 1) =>
        /\ (last_run_type = "single" /\ single_docking_output_path # 0) =>
               /\ single_docking_output_path = nruns
               /\ receptor_pdbqt_path = nruns
        /\ last_run_type = "batch" => receptor_pdbqt_path = nruns
        /\ worker[nruns].term \in {"error", "cancelled"} =>
               ~(/\ last_run_type = "single"
                 /\ single_docking_output_path # 0
                 /\ last_results = <<>>)

\* C25: neither the Main Window's docking workflow (single and batch) nor
\* DockingManager.run_docking starts the external docking program with a box
\* that validate_parameters rejects: an invalid box ends in a failure first.
C25_BoxValidatedBeforeDocking ==
    (fn_op \in {"MainWindow.run_docking", "DockingManager.run_docking"}
        /\ fn_out.started)
    => validate_parameters(fn_in.center, fn_in.size) = "True"

\* C21: no background thread updates a widget itself: every update of the
\* status line, the progress bar, the cancel button or a dialog is made by
\* the UI thread.
C21_WidgetsOnUIThread == widget_update.by = "ui"

\* No fetch or calculation thread is running and no callback is waiting.
Quiescent ==
    /\ \A t \in FetchThreads : fetch_threads[t].pc \in {"idle", "done"}
    /\ calculate_thread.pc = "idle"
    /\ ~is_calculating
    /\ tk_after = <<>>

\* The file the box is to be computed from: the receptor in Blind Docking,
\* the first ligand in Targeted Docking; 0 while there is none.
BoxStructure ==
    IF mw_receptor_path = 0 THEN 0
    ELSE IF docking_mode = "Blind Docking" THEN mw_receptor_path
    ELSE mw_first_ligand

\* C22: once the fetches and selections have stopped and every thread and
\* callback has run, the box is the one computed from the structure fetched
\* or selected last, provided the latest calculation found coordinates.
C22_BoxFollowsLatestStructure ==
    (Quiescent /\ calc_ok /\ BoxStructure # 0) => box_source = BoxStructure

\* C24: a started docking run or coordinate calculation, whichever way it
\* goes (success, a failed step, an exception, a cancellation, an empty
\* receptor path), leaves is_docking resp. is_calculating False again and
\* the thread lock free.
C24_FlagsAndLockReleased ==
    /\ lk_is_docking ~> ~lk_is_docking
    /\ is_calculating ~> ~is_calculating
    /\ (thread_lock # {}) ~> (thread_lock = {})

\* A docking thread and a calculation thread have run to their ends.
C24_Witness ==
    /\ lk_thread[MaxLockRuns].pc = "done"
    /\ ~lk_is_docking
    /\ thread_lock = {}
    /\ selections = MaxSelects
    /\ calculate_thread.pc = "idle"
    /\ ~is_calculating

\* C27: during a batch run the cap on temporary directories deletes no
\* directory the run still uses: the prepared receptor and ligand exist
\* whenever engine.run_docking is invoked, and when the batch completes the
\* directory of every OutputFile of the summary exists, the first one
\* included.
C27_RunDirectoriesKept ==
    /\ batch_run.inputs_exist
    /\ (batch_run.pc = "complete" /\ batch_run.first_output # 0)
          => batch_run.first_output \in disk_dirs

\* C28: with several threads calling create_temp_directory, the registry
\* never holds more than max_temp_dirs directories, and once every call has
\* returned each directory on disk is in the registry.
C28_ConcurrentRegistry ==
    /\ Len(temp_dirs) <= max_temp_dirs
    /\ (\A t \in TempThreads : ct_threads[t].pc = "idle")
          => disk_dirs \subseteq Range(temp_dirs)

\* C29: after create_config_wizard has saved, get_executable_path returns,
\* on the platform the wizard ran on, the entered path for each program
\* that got an answer and the path it returned before for each program
\* whose prompt was left blank.
C29_WizardKeepsAnswers ==
    fn_op = "create_config_wizard" =>
        \A i \in 1..Len(WizardPrograms) :
            LET program == WizardPrograms[i]
                answer == fn_in.answers[program]
            IN  get_executable_path(fn_out, fn_in.platform, program) =
                    IF answer # "" THEN Scalar(answer)
                    ELSE get_executable_path(fn_in.config, fn_in.platform, program)

\* The project is as it was: in memory, in project.json and in its folder.
ProjectUntouched ==
    /\ project_data' = project_data
    /\ project_json' = project_json
    /\ project_files' = project_files

\* The call went through: project.json was written and lists the receptors
\* and ligands the manifest in memory lists.
ProjectSaved ==
    /\ project_json'.state = "ok"
    /\ Names(project_json'.data.receptors) = Names(project_data'.receptors)
    /\ Names(project_json'.data.ligands) = Names(project_data'.ligands)

\* C30: add_receptor and add_ligands are all-or-nothing: a call either
\* leaves the project as it was, or ends with the memory and project.json
\* listing the same receptors and ligands.
C30_AddAllOrNothing ==
    [][(add_receptor \/ add_ligands) => (ProjectUntouched \/ ProjectSaved)]_vars

=============================================================================
